---- MODULE Spec2Model ----
(***************************************************************************)
(* Model of computesdk's real-time transport layer:                        *)
(*   - BinaryProtocol (src/computesdk/protocol.py): the binary frame codec *)
(*     and the typed key-value payload codec, as pure operators over byte  *)
(*     sequences;                                                          *)
(*   - WebSocketClient (src/computesdk/websocket_client.py): the asyncio   *)
(*     client, one action per run of a coroutine between two awaits.       *)
(* Byte strings are sequences of 0..255, text is a sequence of Unicode     *)
(* code points, a dict is a sequence of <<key, value>> pairs with distinct *)
(* keys in insertion order.  Offsets are 0-based as in the source.         *)
(***************************************************************************)
EXTENDS Integers, Sequences, FiniteSets, TLC

(***************************************************************************)
(* Bounds of the model                                                     *)
(***************************************************************************)
MaxFields == 2

(***************************************************************************)
(* protocol.py: constants                                                  *)
(***************************************************************************)
MSG_SUBSCRIBE == 1
MSG_UNSUBSCRIBE == 2
MSG_DATA == 3
MSG_ERROR == 4
MSG_CONNECTED == 5

VAL_STRING == 1
VAL_NUMBER == 2
VAL_BOOLEAN == 3
VAL_BYTES == 4

\* largest values struct.pack accepts for ">H" and ">I"
U16_MAX == 65535
\* TLC integers are 32-bit: a ">I" value of 2^31 or more is represented by
\* 2^31-1.  Such a value is only ever compared with the length of a modelled
\* byte string, which it exceeds either way.
U32_SAT == 2147483647

\* text literals of the source, as code points
StrSubscribe == <<115, 117, 98, 115, 99, 114, 105, 98, 101>>
StrUnsubscribe == <<117, 110>> \o StrSubscribe
StrData == <<100, 97, 116, 97>>
StrError == <<101, 114, 114, 111, 114>>
StrConnected == <<99, 111, 110, 110, 101, 99, 116, 101, 100>>
StrEmptyMessage == <<69, 109, 112, 116, 121, 32, 109, 101, 115, 115, 97, 103, 101>>
StrInvalidMessage == <<73, 110, 118, 97, 108, 105, 100, 32, 109, 101, 115, 115, 97, 103, 101>>

\* TYPE_TO_BYTE.get(msg_type, MSG_DATA)
TypeToByte(t) ==
    CASE t = StrSubscribe -> MSG_SUBSCRIBE
      [] t = StrUnsubscribe -> MSG_UNSUBSCRIBE
      [] t = StrData -> MSG_DATA
      [] t = StrError -> MSG_ERROR
      [] t = StrConnected -> MSG_CONNECTED
      [] OTHER -> MSG_DATA

(***************************************************************************)
(* Python values                                                           *)
(***************************************************************************)
\* a Python float is its IEEE-754 binary64 fields; the 52-bit fraction is
\* split in 4 + 24 + 24 bits to stay inside TLC's integers
Float(sign, exp, hi, mid, lo) ==
    [kind |-> "float", sign |-> sign, exp |-> exp, hi |-> hi, mid |-> mid, lo |-> lo]
StrVal(s) == [kind |-> "str", v |-> s]
BoolVal(b) == [kind |-> "bool", v |-> b]
BytesVal(b) == [kind |-> "bytes", v |-> b]
\* a Python int that is not a bool: its sign and the bits of its magnitude, most
\* significant first, <<>> for 0 (Python ints have no width)
IntVal(sign, bits) == [kind |-> "int", sign |-> sign, bits |-> bits]
NoneVal == [kind |-> "none"]
\* a nested dict (pairs in insertion order) and a nested list
DictVal(d) == [kind |-> "dict", v |-> d]
ListVal(l) == [kind |-> "list", v |-> l]
\* a value of any other class, by the text str(value) returns
OtherVal(s) == [kind |-> "other", str |-> s]

Raise(e) == [raised |-> TRUE, exc |-> e]
Return(v) == [raised |-> FALSE, value |-> v]

\* data[a:b] for 0 <= a <= b <= len(data)
Slice(data, a, b) == SubSeq(data, a + 1, b)

\* dict lookup / result[key] = value (a key that is present keeps its place)
HasKey(d, k) == \E i \in 1..Len(d) : d[i][1] = k
DictSet(d, k, v) ==
    IF HasKey(d, k)
    THEN [i \in 1..Len(d) |-> IF d[i][1] = k THEN <<k, v>> ELSE d[i]]
    ELSE Append(d, <<k, v>>)

(***************************************************************************)
(* str.encode("utf-8") and bytes.decode("utf-8")                           *)
(***************************************************************************)
Utf8Char(c) ==
    IF c < 128 THEN <<c>>
    ELSE IF c < 2048 THEN <<192 + (c \div 64), 128 + (c % 64)>>
    ELSE IF c < 65536
         THEN <<224 + (c \div 4096), 128 + ((c \div 64) % 64), 128 + (c % 64)>>
    ELSE <<240 + (c \div 262144), 128 + ((c \div 4096) % 64),
           128 + ((c \div 64) % 64), 128 + (c % 64)>>

RECURSIVE Utf8Encode(_)
Utf8Encode(s) ==
    IF s = <<>> THEN <<>> ELSE Utf8Char(Head(s)) \o Utf8Encode(Tail(s))

IsCont(b) == b >= 128 /\ b <= 191

\* the well-formed sequence starting at b[i] (1-based): <<length, code point>>,
\* or <<n, -1>> when the n bytes at b[i] are a maximal ill-formed subpart
Utf8Next(b, i) ==
    LET n == Len(b)
        b0 == b[i]
        has(k) == i + k <= n
        lo2 == IF b0 = 224 THEN 160 ELSE IF b0 = 240 THEN 144 ELSE 128
        hi2 == IF b0 = 237 THEN 159 ELSE IF b0 = 244 THEN 143 ELSE 191
        ok2 == has(1) /\ b[i + 1] >= lo2 /\ b[i + 1] <= hi2
        ok3 == has(2) /\ IsCont(b[i + 2])
        ok4 == has(3) /\ IsCont(b[i + 3])
    IN  IF b0 < 128 THEN <<1, b0>>
        ELSE IF b0 >= 194 /\ b0 <= 223
             THEN IF ok2 THEN <<2, (b0 - 192) * 64 + (b[i + 1] - 128)>>
                  ELSE <<1, -1>>
        ELSE IF b0 >= 224 /\ b0 <= 239
             THEN IF ~ok2 THEN <<1, -1>>
                  ELSE IF ~ok3 THEN <<2, -1>>
                  ELSE <<3, (b0 - 224) * 4096 + (b[i + 1] - 128) * 64 + (b[i + 2] - 128)>>
        ELSE IF b0 >= 240 /\ b0 <= 244
             THEN IF ~ok2 THEN <<1, -1>>
                  ELSE IF ~ok3 THEN <<2, -1>>
                  ELSE IF ~ok4 THEN <<3, -1>>
                  ELSE <<4, (b0 - 240) * 262144 + (b[i + 1] - 128) * 4096
                            + (b[i + 2] - 128) * 64 + (b[i + 3] - 128)>>
        ELSE <<1, -1>>

\* errors="strict": Raise on the first ill-formed sequence;
\* errors="replace": U+FFFD for each maximal ill-formed subpart
RECURSIVE Utf8DecodeFrom(_, _, _, _)
Utf8DecodeFrom(b, i, acc, replace) ==
    IF i > Len(b) THEN Return(acc)
    ELSE LET nx == Utf8Next(b, i)
         IN  IF nx[2] >= 0 THEN Utf8DecodeFrom(b, i + nx[1], Append(acc, nx[2]), replace)
             ELSE IF replace THEN Utf8DecodeFrom(b, i + nx[1], Append(acc, 65533), replace)
             ELSE Raise("UnicodeDecodeError")

Utf8Decode(b) == Utf8DecodeFrom(b, 1, <<>>, FALSE)
Utf8DecodeReplace(b) == Utf8DecodeFrom(b, 1, <<>>, TRUE).value

(***************************************************************************)
(* struct.pack / struct.unpack                                             *)
(***************************************************************************)
PackH(n) == <<n \div 256, n % 256>>
PackI(n) == <<n \div 16777216, (n \div 65536) % 256, (n \div 256) % 256, n % 256>>
UnpackH(b) == b[1] * 256 + b[2]
UnpackI(b) ==
    IF b[1] >= 128 THEN U32_SAT
    ELSE ((b[1] * 256 + b[2]) * 256 + b[3]) * 256 + b[4]

\* struct.pack(">d", x) and struct.unpack(">d", b)[0]
PackD(x) ==
    <<x.sign * 128 + (x.exp \div 16), (x.exp % 16) * 16 + x.hi,
      x.mid \div 65536, (x.mid \div 256) % 256, x.mid % 256,
      x.lo \div 65536, (x.lo \div 256) % 256, x.lo % 256>>
UnpackD(b) ==
    Float(b[1] \div 128, (b[1] % 128) * 16 + (b[2] \div 16), b[2] % 16,
          (b[3] * 256 + b[4]) * 256 + b[5], (b[6] * 256 + b[7]) * 256 + b[8])
FloatZero == Float(0, 0, 0, 0, 0)

(***************************************************************************)
(* float(int) and json.dumps                                               *)
(***************************************************************************)
RECURSIVE BitsNat(_)
BitsNat(b) == IF b = <<>> THEN 0 ELSE 2 * BitsNat(SubSeq(b, 1, Len(b) - 1)) + b[Len(b)]

\* float(n) for a Python int: the nearest binary64, ties to even;
\* OverflowError when that is beyond the largest finite float
IntToFloat(n) ==
    LET L == Len(n.bits)
        m == [i \in 1..53 |-> IF i <= L THEN n.bits[i] ELSE 0]
        hi == BitsNat(SubSeq(m, 2, 5))
        mid == BitsNat(SubSeq(m, 6, 29))
        lo == BitsNat(SubSeq(m, 30, 53))
        up == /\ L > 53
              /\ n.bits[54] = 1
              /\ m[53] = 1 \/ \E i \in 55..L : n.bits[i] = 1
        e == 1023 + L - 1
        r == IF ~up THEN Float(n.sign, e, hi, mid, lo)
             ELSE IF lo < 16777215 THEN Float(n.sign, e, hi, mid, lo + 1)
             ELSE IF mid < 16777215 THEN Float(n.sign, e, hi, mid + 1, 0)
             ELSE IF hi < 15 THEN Float(n.sign, e, hi + 1, 0, 0)
             ELSE Float(n.sign, e + 1, 0, 0, 0)
    IN  IF L = 0 THEN Return(FloatZero)
        ELSE IF r.exp > 2046 THEN Raise("OverflowError")
        ELSE Return(r)

HexDigit(d) == IF d < 10 THEN 48 + d ELSE 87 + d
\* \uXXXX
JsonU(c) ==
    <<92, 117, HexDigit(c \div 4096), HexDigit((c \div 256) % 16),
      HexDigit((c \div 16) % 16), HexDigit(c % 16)>>
\* json.dumps of one character of a string, ensure_ascii=True
JsonChar(c) ==
    CASE c = 34 -> <<92, 34>>
      [] c = 92 -> <<92, 92>>
      [] c = 10 -> <<92, 110>>
      [] c = 13 -> <<92, 114>>
      [] c = 9 -> <<92, 116>>
      [] c = 8 -> <<92, 98>>
      [] c = 12 -> <<92, 102>>
      [] c >= 65536 -> JsonU(55296 + ((c - 65536) \div 1024))
                           \o JsonU(56320 + ((c - 65536) % 1024))
      [] c < 32 \/ c > 127 -> JsonU(c)
      [] OTHER -> <<c>>
RECURSIVE JsonChars(_)
JsonChars(s) == IF s = <<>> THEN <<>> ELSE JsonChar(Head(s)) \o JsonChars(Tail(s))
JsonString(s) == <<34>> \o JsonChars(s) \o <<34>>

\* json.dumps(value) with the default separators ", " and ": ", for nested
\* values that are text, booleans, None, lists and dicts with text keys
RECURSIVE JsonDumps(_)
RECURSIVE JsonItems(_)
RECURSIVE JsonPairs(_)
JsonItems(l) ==
    IF l = <<>> THEN <<>>
    ELSE JsonDumps(Head(l)) \o (IF Tail(l) = <<>> THEN <<>> ELSE <<44, 32>> \o JsonItems(Tail(l)))
JsonPairs(d) ==
    IF d = <<>> THEN <<>>
    ELSE JsonString(Head(d)[1]) \o <<58, 32>> \o JsonDumps(Head(d)[2])
         \o (IF Tail(d) = <<>> THEN <<>> ELSE <<44, 32>> \o JsonPairs(Tail(d)))
JsonDumps(value) ==
    CASE value.kind = "str" -> JsonString(value.v)
      [] value.kind = "bool" ->
           IF value.v THEN <<116, 114, 117, 101>> ELSE <<102, 97, 108, 115, 101>>
      [] value.kind = "none" -> <<110, 117, 108, 108>>
      [] value.kind = "list" -> <<91>> \o JsonItems(value.v) \o <<93>>
      [] value.kind = "dict" -> <<123>> \o JsonPairs(value.v) \o <<125>>

(***************************************************************************)
(* BinaryProtocol._encode_data                                             *)
(***************************************************************************)
\* lines 196-229 for a value that is no str, bool, float or bytes: an int, a
\* dict, a list, None, anything else
EncodeOtherValue(value) ==
    CASE value.kind = "int" ->
           <<VAL_NUMBER>> \o PackI(8) \o PackD(IntToFloat(value).value)
      [] value.kind \in {"dict", "list"} ->
           LET val_bytes == Utf8Encode(JsonDumps(value))
           IN  <<VAL_STRING>> \o PackI(Len(val_bytes)) \o val_bytes
      [] value.kind = "none" ->
           <<VAL_STRING>> \o PackI(0)
      [] value.kind = "other" ->
           LET val_bytes == Utf8Encode(value.str)
           IN  <<VAL_STRING>> \o PackI(Len(val_bytes)) \o val_bytes

\* _encode_data with the int/float branch tested before the bool branch: True
\* and False are written as the numbers 1.0 and 0.0
EncodeValueBoolAsNumber(value) ==
    CASE value.kind = "str" ->
           LET val_bytes == Utf8Encode(value.v)
           IN  <<VAL_STRING>> \o PackI(Len(val_bytes)) \o val_bytes
      [] value.kind = "bool" ->
           <<VAL_NUMBER>> \o PackI(8)
               \o PackD(Float(0, IF value.v THEN 1023 ELSE 0, 0, 0, 0))
      [] value.kind = "float" ->
           <<VAL_NUMBER>> \o PackI(8) \o PackD(value)
      [] value.kind = "bytes" ->
           <<VAL_BYTES>> \o PackI(Len(value.v)) \o value.v
      [] OTHER -> EncodeOtherValue(value)

\* the tag, value-length and value bytes appended for one value
EncodeValue(value) ==
    CASE value.kind = "str" ->
           LET val_bytes == Utf8Encode(value.v)
           IN  <<VAL_STRING>> \o PackI(Len(val_bytes)) \o val_bytes
      [] value.kind = "bool" ->
           <<VAL_BOOLEAN>> \o PackI(1) \o <<IF value.v THEN 1 ELSE 0>>
      [] value.kind = "float" ->
           <<VAL_NUMBER>> \o PackI(8) \o PackD(value)
      [] value.kind = "bytes" ->
           <<VAL_BYTES>> \o PackI(Len(value.v)) \o value.v
      [] OTHER -> EncodeOtherValue(value)

RECURSIVE EncodeFields(_)
EncodeFields(data) ==
    IF data = <<>> THEN <<>>
    ELSE LET key_bytes == Utf8Encode(Head(data)[1])
         IN  PackH(Len(key_bytes)) \o key_bytes \o EncodeValue(Head(data)[2])
             \o EncodeFields(Tail(data))

EncodeData(data) ==
    IF data = <<>> THEN PackH(0)
    ELSE PackH(Len(data)) \o EncodeFields(data)

\* struct.pack raises struct.error for a length its format cannot hold
PackOverflow(message) ==
    \/ Len(Utf8Encode(message.channel)) > U16_MAX
    \/ Len(Utf8Encode(message.type)) > U16_MAX
    \/ Len(message.data) > U16_MAX
    \/ \E i \in 1..Len(message.data) : Len(Utf8Encode(message.data[i][1])) > U16_MAX

(***************************************************************************)
(* The length prefixes of encode, for byte strings too long to write out:  *)
(* a length is <<hi, lo>>, the number hi * 65536 + lo.                     *)
(***************************************************************************)
Wide(n) == <<n \div 65536, n % 65536>>
WAdd(a, b) == <<a[1] + b[1] + ((a[2] + b[2]) \div 65536), (a[2] + b[2]) % 65536>>
RECURSIVE WSum(_)
WSum(lens) == IF lens = <<>> THEN Wide(0) ELSE WAdd(Head(lens), WSum(Tail(lens)))

\* struct.pack(">H", n) with the length reduced modulo 2^16 and never refused
PackHWrapped(n) == Return(PackH(n[2]))
\* struct.pack(">H", n) and struct.pack(">I", n): struct.error when n does not
\* fit the format
PackHChecked(n) ==
    IF n[1] > 0 THEN Raise("struct.error") ELSE Return(PackH(n[2]))
PackIChecked(n) ==
    IF n[1] > U16_MAX THEN Raise("struct.error")
    ELSE Return(PackH(n[1]) \o PackH(n[2]))
PackChecked(width, n) == IF width = 2 THEN PackHChecked(n) ELSE PackIChecked(n)

\* a message by its sizes: the byte lengths of channel and type, the byte
\* lengths of the key and the (text or bytes) value of its first fields, and
\* the number of further fields, each a 3-byte key with a boolean
FieldSize(key, value) == [key |-> key, value |-> value]
SmallFieldLen == 2 + 3 + 1 + 4 + 1
FieldCount(shape) == Wide(Len(shape.fields) + shape.more)
\* len(data_bytes): the field count and, per field, key length, key, tag,
\* value length, value
PayloadLen(shape) ==
    WAdd(WAdd(Wide(2), Wide(shape.more * SmallFieldLen)),
         WSum([i \in 1..Len(shape.fields) |->
                 WAdd(Wide(2 + 1 + 4), WAdd(shape.fields[i].key, shape.fields[i].value))]))

\* the calls of struct.pack in encode and _encode_data, in the order of the
\* code, as <<width in bytes, length packed>>
RECURSIVE FieldPacks(_)
FieldPacks(fields) ==
    IF fields = <<>> THEN <<>>
    ELSE <<(<<2, Head(fields).key>>), <<4, Head(fields).value>>>> \o FieldPacks(Tail(fields))
Packs(shape) ==
    <<(<<2, shape.channel>>), <<2, shape.type>>, <<2, FieldCount(shape)>>>>
        \o FieldPacks(shape.fields)
        \o (IF shape.more > 0 THEN <<(<<2, Wide(3)>>), <<4, Wide(1)>>>> ELSE <<>>)
        \o <<(<<4, PayloadLen(shape)>>)>>

\* encode, by the length prefixes it writes: struct.error of the first pack
\* that raises, else each prefix with the length of the bytes that follow it
EncodeLengths(shape) ==
    LET packs == Packs(shape)
    IN  IF \E i \in 1..Len(packs) : PackChecked(packs[i][1], packs[i][2]).raised
        THEN Raise("struct.error")
        ELSE Return([i \in 1..Len(packs) |->
                        <<PackChecked(packs[i][1], packs[i][2]).value, packs[i][2]>>])

\* line 199: float(value) raises OverflowError for an int beyond the floats
IntOverflow(message) ==
    \E i \in 1..Len(message.data) :
        message.data[i][2].kind = "int" /\ IntToFloat(message.data[i][2]).raised

(***************************************************************************)
(* BinaryProtocol.encode                                                   *)
(***************************************************************************)
Encode(message) ==
    LET type_byte == TypeToByte(message.type)
        channel_bytes == Utf8Encode(message.channel)
        msg_type_bytes == Utf8Encode(message.type)
        data_bytes == EncodeData(message.data)
    IN  IF PackOverflow(message) THEN Raise("struct.error")
        ELSE IF IntOverflow(message) THEN Raise("OverflowError")
        ELSE Return(<<type_byte>> \o PackH(Len(channel_bytes)) \o channel_bytes
                    \o PackH(Len(msg_type_bytes)) \o msg_type_bytes
                    \o PackI(Len(data_bytes)) \o data_bytes)

(***************************************************************************)
(* BinaryProtocol._decode_data                                             *)
(***************************************************************************)
\* the value of one field with a tag outside the four known ones refused
DecodeValueKnownTagsOnly(data, offset, val_type, val_len) ==
    CASE val_type = VAL_STRING ->
           LET s == Utf8Decode(Slice(data, offset, offset + val_len))
           IN  IF s.raised THEN s ELSE Return(StrVal(s.value))
      [] val_type = VAL_NUMBER ->
           IF val_len >= 8 THEN Return(UnpackD(Slice(data, offset, offset + 8)))
           ELSE Return(FloatZero)
      [] val_type = VAL_BOOLEAN ->
           Return(BoolVal(IF val_len >= 1 THEN data[offset + 1] = 1 ELSE FALSE))
      [] val_type = VAL_BYTES ->
           Return(BytesVal(Slice(data, offset, offset + val_len)))
      [] OTHER ->
           Raise("ValueError")

\* lines 276-294: the value of one field read in full, by its tag
DecodeValue(data, offset, val_type, val_len) ==
    CASE val_type = VAL_STRING ->
           LET s == Utf8Decode(Slice(data, offset, offset + val_len))
           IN  IF s.raised THEN s ELSE Return(StrVal(s.value))
      [] val_type = VAL_NUMBER ->
           IF val_len >= 8 THEN Return(UnpackD(Slice(data, offset, offset + 8)))
           ELSE Return(FloatZero)
      [] val_type = VAL_BOOLEAN ->
           Return(BoolVal(IF val_len >= 1 THEN data[offset + 1] = 1 ELSE FALSE))
      [] val_type = VAL_BYTES ->
           Return(BytesVal(Slice(data, offset, offset + val_len)))
      [] OTHER ->
           Return(StrVal(Utf8DecodeReplace(Slice(data, offset, offset + val_len))))

\* the loop with a return of the empty dict in place of each break: the fields
\* read before the one that cannot be read are dropped
RECURSIVE DecodeFieldsAllOrNothing(_, _, _, _)
DecodeFieldsAllOrNothing(data, offset, n, result) ==
    IF n = 0 THEN Return(result)
    ELSE IF offset + 2 > Len(data) THEN Return(<<>>)
    ELSE
    LET key_len == UnpackH(Slice(data, offset, offset + 2))
        o1 == offset + 2
    IN  IF o1 + key_len > Len(data) THEN Return(<<>>)
        ELSE
        LET key == Utf8Decode(Slice(data, o1, o1 + key_len))
            o2 == o1 + key_len
        IN  IF key.raised THEN key
            ELSE IF o2 + 1 + 4 > Len(data) THEN Return(<<>>)
            ELSE
            LET val_type == data[o2 + 1]
                val_len == UnpackI(Slice(data, o2 + 1, o2 + 5))
                o4 == o2 + 5
            IN  IF val_len > Len(data) - o4 THEN Return(<<>>)
                ELSE
                LET v == DecodeValue(data, o4, val_type, val_len)
                IN  IF v.raised THEN v
                    ELSE DecodeFieldsAllOrNothing(data, o4 + val_len, n - 1,
                                                  DictSet(result, key.value, v.value))

\* the loop of lines 245-296: n fields left to read, from offset
RECURSIVE DecodeFields(_, _, _, _)
DecodeFields(data, offset, n, result) ==
    IF n = 0 \/ offset + 2 > Len(data) THEN Return(result)
    ELSE
    LET key_len == UnpackH(Slice(data, offset, offset + 2))
        o1 == offset + 2
    IN  IF o1 + key_len > Len(data) THEN Return(result)
        ELSE
        LET key == Utf8Decode(Slice(data, o1, o1 + key_len))
            o2 == o1 + key_len
        IN  IF key.raised THEN key
            ELSE IF o2 + 1 > Len(data) THEN Return(result)
            ELSE
            LET val_type == data[o2 + 1]
                o3 == o2 + 1
            IN  IF o3 + 4 > Len(data) THEN Return(result)
                ELSE
                LET val_len == UnpackI(Slice(data, o3, o3 + 4))
                    o4 == o3 + 4
                IN  IF val_len > Len(data) - o4 THEN Return(result)
                    ELSE
                    LET v == DecodeValue(data, o4, val_type, val_len)
                    IN  IF v.raised THEN v
                        ELSE DecodeFields(data, o4 + val_len, n - 1,
                                          DictSet(result, key.value, v.value))

DecodeData(data) ==
    IF Len(data) < 2 THEN Return(<<>>)
    ELSE DecodeFields(data, 2, UnpackH(Slice(data, 0, 2)), <<>>)

(***************************************************************************)
(* BinaryProtocol.decode                                                   *)
(***************************************************************************)
Message(type, channel, data) == [type |-> type, channel |-> channel, data |-> data]
ErrorMessage(channel, text) ==
    Message(StrError, channel, <<<<StrError, StrVal(text)>>>>)

\* decode with a missing or overlong payload length reported as an error
DecodeBodyStrict(data, offset, msg_type, channel) ==
    IF offset + 4 > Len(data) THEN Return(ErrorMessage(channel, StrInvalidMessage))
    ELSE
    LET data_len == UnpackI(Slice(data, offset, offset + 4))
        o1 == offset + 4
    IN  IF data_len > Len(data) - o1
        THEN Return(ErrorMessage(channel, StrInvalidMessage))
        ELSE
        LET payload == DecodeData(Slice(data, o1, o1 + data_len))
        IN  IF payload.raised THEN payload
            ELSE Return(Message(msg_type, channel, payload.value))

\* lines 153-170, after the header was read in full
DecodeBody(data, offset, msg_type, channel) ==
    IF offset + 4 > Len(data) THEN Return(Message(msg_type, channel, <<>>))
    ELSE
    LET data_len == UnpackI(Slice(data, offset, offset + 4))
        o1 == offset + 4
    IN  IF data_len > Len(data) - o1 THEN Return(Message(msg_type, channel, <<>>))
        ELSE
        LET payload == DecodeData(Slice(data, o1, o1 + data_len))
        IN  IF payload.raised THEN payload
            ELSE Return(Message(msg_type, channel, payload.value))

\* decode without the check of line 141: a frame that ends before the
\* messageType length is returned as a message of empty type
DecodeMsgTypeUnchecked(data, offset, channel) ==
    IF offset + 2 > Len(data) THEN Return(Message(<<>>, channel, <<>>))
    ELSE
    LET msg_type_len == UnpackH(Slice(data, offset, offset + 2))
        o1 == offset + 2
    IN  IF o1 + msg_type_len > Len(data)
        THEN Return(ErrorMessage(channel, StrInvalidMessage))
        ELSE
        LET msg_type == Utf8Decode(Slice(data, o1, o1 + msg_type_len))
        IN  IF msg_type.raised THEN msg_type
            ELSE DecodeBody(data, o1 + msg_type_len, msg_type.value, channel)

\* lines 140-151, after the channel was read
DecodeMsgType(data, offset, channel) ==
    IF offset + 2 > Len(data) THEN Return(ErrorMessage(channel, StrInvalidMessage))
    ELSE
    LET msg_type_len == UnpackH(Slice(data, offset, offset + 2))
        o1 == offset + 2
    IN  IF o1 + msg_type_len > Len(data)
        THEN Return(ErrorMessage(channel, StrInvalidMessage))
        ELSE
        LET msg_type == Utf8Decode(Slice(data, o1, o1 + msg_type_len))
        IN  IF msg_type.raised THEN msg_type
            ELSE DecodeBody(data, o1 + msg_type_len, msg_type.value, channel)

\* decode without the test of lines 118-119: the empty input is reported like
\* any other input too short for a channel length
DecodeEmptyAsInvalid(data) ==
    IF 1 + 2 > Len(data) THEN Return(ErrorMessage(<<>>, StrInvalidMessage))
    ELSE
    LET channel_len == UnpackH(Slice(data, 1, 3))
        offset == 3
    IN  IF offset + channel_len > Len(data)
        THEN Return(ErrorMessage(<<>>, StrInvalidMessage))
        ELSE
        LET channel == Utf8Decode(Slice(data, offset, offset + channel_len))
        IN  IF channel.raised THEN channel
            ELSE DecodeMsgType(data, offset + channel_len, channel.value)

\* decode with an unknown kind byte refused
DecodeKnownKindOnly(data) ==
    IF Len(data) < 1 THEN Return(ErrorMessage(<<>>, StrEmptyMessage))
    ELSE IF data[1] \notin MSG_SUBSCRIBE..MSG_CONNECTED \/ 1 + 2 > Len(data)
    THEN Return(ErrorMessage(<<>>, StrInvalidMessage))
    ELSE
    LET channel_len == UnpackH(Slice(data, 1, 3))
        offset == 3
    IN  IF offset + channel_len > Len(data)
        THEN Return(ErrorMessage(<<>>, StrInvalidMessage))
        ELSE
        LET channel == Utf8Decode(Slice(data, offset, offset + channel_len))
        IN  IF channel.raised THEN channel
            ELSE DecodeMsgType(data, offset + channel_len, channel.value)

Decode(data) ==
    IF Len(data) < 1 THEN Return(ErrorMessage(<<>>, StrEmptyMessage))
    ELSE IF 1 + 2 > Len(data) THEN Return(ErrorMessage(<<>>, StrInvalidMessage))
    ELSE
    LET channel_len == UnpackH(Slice(data, 1, 3))
        offset == 3
    IN  IF offset + channel_len > Len(data)
        THEN Return(ErrorMessage(<<>>, StrInvalidMessage))
        ELSE
        LET channel == Utf8Decode(Slice(data, offset, offset + channel_len))
        IN  IF channel.raised THEN channel
            ELSE DecodeMsgType(data, offset + channel_len, channel.value)

(***************************************************************************)
(* Codec runs: a message is encoded, then decode is applied to the bytes,  *)
(* to a proper prefix of them, or to the bytes with one byte replaced.     *)
(***************************************************************************)
VARIABLES cmsg, cwire, cin, cout, cpc
codecVars == <<cmsg, cwire, cin, cout, cpc>>

\* "data", "subscribe", "té"
CTypes == {StrData, StrSubscribe, <<116, 233>>}
\* "", "€1"
CChannels == {<<>>, <<8364, 49>>}
\* "k", "é", "zz"
CKeys == {<<107>>, <<233>>, <<122, 122>>}
\* "hé", True, False, -0.1, b"\x00\xff"
CValues ==
    {StrVal(<<104, 233>>), BoolVal(TRUE), BoolVal(FALSE),
     Float(1, 1019, 9, 10066329, 10066330), BytesVal(<<0, 255>>)}
\* byte values written over a byte of the frame
CBytes == {0, 9, 255}
\* values that are no text, boolean, float or bytes: the ints 7, -(2^53 + 1)
\* and 2^1024, {"k": "h\u00e9", "zz": [True, None]}, [], None, and the tuple (1,)
CExtraValues ==
    {IntVal(0, <<1, 1, 1>>),
     IntVal(1, [i \in 1..54 |-> IF i \in {1, 54} THEN 1 ELSE 0]),
     IntVal(0, [i \in 1..1025 |-> IF i = 1 THEN 1 ELSE 0]),
     DictVal(<<<<(<<107>>), StrVal(<<104, 233>>)>>,
               <<(<<122, 122>>), ListVal(<<BoolVal(TRUE), NoneVal>>)>>>>),
     ListVal(<<>>),
     NoneVal,
     OtherVal(<<40, 49, 44, 41>>)}

CDicts ==
    {d \in UNION {[1..n -> CKeys \X CValues] : n \in 0..MaxFields} :
        \A i, j \in 1..Len(d) : i # j => d[i][1] # d[j][1]}
CMessages == {Message(t, c, d) : t \in CTypes, c \in CChannels, d \in CDicts}

NoResult == [raised |-> FALSE, value |-> <<>>]

CodecInit ==
    /\ cmsg \in CMessages
    /\ cwire = <<>>
    /\ cin = <<>>
    /\ cout = NoResult
    /\ cpc = "start"

\* wire = protocol.encode(message)
CodecEncode ==
    /\ cpc = "start"
    /\ ~Encode(cmsg).raised
    /\ cwire' = Encode(cmsg).value
    /\ cpc' = "encoded"
    /\ UNCHANGED <<cmsg, cin, cout>>

\* protocol.decode(wire)
CodecDecodeWhole ==
    /\ cpc = "encoded"
    /\ cin' = cwire
    /\ cout' = Decode(cwire)
    /\ cpc' = "whole"
    /\ UNCHANGED <<cmsg, cwire>>

\* protocol.decode(wire[:n]) for a proper prefix
CodecDecodePrefix ==
    /\ cpc = "encoded"
    /\ \E n \in 0..(Len(cwire) - 1) :
         /\ cin' = Slice(cwire, 0, n)
         /\ cout' = Decode(Slice(cwire, 0, n))
    /\ cpc' = "prefix"
    /\ UNCHANGED <<cmsg, cwire>>

\* protocol.decode of the frame with byte i replaced by b
CodecDecodeCorrupt ==
    /\ cpc = "encoded"
    /\ \E i \in 1..Len(cwire), b \in CBytes :
         /\ cwire[i] # b
         /\ cin' = [cwire EXCEPT ![i] = b]
         /\ cout' = Decode([cwire EXCEPT ![i] = b])
    /\ cpc' = "corrupt"
    /\ UNCHANGED <<cmsg, cwire>>

\* kind bytes a peer may write: the five known ones, and two unknown ones
CKinds ==
    {MSG_SUBSCRIBE, MSG_UNSUBSCRIBE, MSG_DATA, MSG_ERROR, MSG_CONNECTED, 0, 255}

\* protocol.decode of the frame as a peer writes it with kind byte k
CodecDecodeKind ==
    /\ cpc = "encoded"
    /\ \E k \in CKinds :
         /\ cwire[1] # k
         /\ cin' = [cwire EXCEPT ![1] = k]
         /\ cout' = Decode([cwire EXCEPT ![1] = k])
    /\ cpc' = "kind"
    /\ UNCHANGED <<cmsg, cwire>>

\* protocol.decode of a frame without payload fields, with byte i replaced by b
\* and cut after n >= i bytes
CodecDecodeCut ==
    /\ cpc = "encoded"
    /\ cmsg.data = <<>>
    /\ \E i \in 1..Len(cwire), b \in CBytes :
         /\ cwire[i] # b
         /\ \E n \in i..(Len(cwire) - 1) :
              /\ cin' = Slice([cwire EXCEPT ![i] = b], 0, n)
              /\ cout' = Decode(Slice([cwire EXCEPT ![i] = b], 0, n))
    /\ cpc' = "cut"
    /\ UNCHANGED <<cmsg, cwire>>

\* bytes of the kind byte, channel length, channel, messageType length, messageType
HeaderLen(m) == 1 + 2 + Len(Utf8Encode(m.channel)) + 2 + Len(Utf8Encode(m.type))

\* protocol.decode of the frame as a peer writes it when its payload is the
\* first n bytes of the encoded payload (the payload length says n)
CodecDecodePayloadCut ==
    /\ cpc = "encoded"
    /\ \E n \in 0..(Len(EncodeData(cmsg.data)) - 1) :
         LET frame == Slice(cwire, 0, HeaderLen(cmsg)) \o PackI(n)
                          \o Slice(EncodeData(cmsg.data), 0, n)
         IN  /\ cin' = frame
             /\ cout' = Decode(frame)
    /\ cpc' = "payload_cut"
    /\ UNCHANGED <<cmsg, cwire>>

\* protocol.decode(protocol.encode(m)) for the message with one more field,
\* whose value is no text, boolean, float or bytes
CodecEncodeExtra ==
    /\ cpc = "start"
    /\ Len(cmsg.data) < MaxFields
    /\ \E k \in CKeys, v \in CExtraValues :
         /\ ~HasKey(cmsg.data, k)
         /\ LET m == [cmsg EXCEPT !.data = Append(@, <<k, v>>)]
                w == Encode(m)
            IN  /\ cmsg' = m
                /\ cwire' = IF w.raised THEN <<>> ELSE w.value
                /\ cin' = IF w.raised THEN <<>> ELSE w.value
                /\ cout' = IF w.raised THEN w ELSE Decode(w.value)
    /\ cpc' = "extra"

\* a payload field as a peer writes it: its tag byte and its value bytes, whose
\* number is the declared value length
WireVal(tag, bytes) == [kind |-> "wire", tag |-> tag, bytes |-> bytes]
\* tags a peer may write: the four known ones and an unknown one
CTags == {VAL_STRING, VAL_NUMBER, VAL_BOOLEAN, VAL_BYTES, 255}
\* value bytes of 0, 1, 3, 8 and 9 bytes: b"", b"\x01", b"\xff", "h\u00e9" in
\* UTF-8, the float -0.1, and -0.1 followed by one more byte
CValueBytes ==
    {<<>>, <<1>>, <<255>>, <<104, 195, 169>>,
     PackD(Float(1, 1019, 9, 10066329, 10066330)),
     PackD(Float(1, 1019, 9, 10066329, 10066330)) \o <<1>>}
\* the bytes of one payload field (the layout of lines 250-274)
WireField(f) ==
    PackH(Len(Utf8Encode(f[1]))) \o Utf8Encode(f[1]) \o <<f[2].tag>>
        \o PackI(Len(f[2].bytes)) \o f[2].bytes
RECURSIVE WireFields(_)
WireFields(fs) == IF fs = <<>> THEN <<>> ELSE WireField(Head(fs)) \o WireFields(Tail(fs))
\* the frame of message m whose payload declares count fields and holds fs
WireFrame(m, count, fs) ==
    Slice(Encode([m EXCEPT !.data = <<>>]).value, 0, HeaderLen(m))
        \o PackI(2 + Len(WireFields(fs))) \o PackH(count) \o WireFields(fs)

\* protocol.decode of a frame whose payload a peer wrote field by field, with
\* any tag, any declared value length and any declared field count
CodecDecodeFields ==
    /\ cpc = "start"
    /\ cmsg.data = <<>>
    /\ cmsg.channel = <<>>
    /\ \E n \in 1..MaxFields, count \in 0..(MaxFields + 1) :
         \E fs \in [1..n -> CKeys \X {WireVal(t, b) : t \in CTags, b \in CValueBytes}] :
            /\ cmsg' = [cmsg EXCEPT !.data = fs]
            /\ cwire' = WireFrame(cmsg, count, fs)
            /\ cin' = WireFrame(cmsg, count, fs)
            /\ cout' = Decode(WireFrame(cmsg, count, fs))
    /\ cpc' = "fields"

\* C1: decode(encode(m)) returns m: the same channel and type string, the same
\* keys in the same order, equal values of the same kind
C1_RoundTrip == cpc = "whole" => ~cout.raised /\ cout.value = cmsg
C1_Witness ==
    /\ cpc = "whole"
    /\ Len(cmsg.data) = 2
    /\ cmsg.data[1][2] = BoolVal(TRUE)
    /\ cmsg.data[2][2].kind = "float"
    /\ cout.value.data = cmsg.data

\* C2: decode returns a message for every byte string, it never raises
C2_DecodeNeverRaises == cpc \in {"whole", "prefix", "corrupt"} => ~cout.raised

\* C3: decode of a proper prefix of a valid frame returns without raising, and
\* returns an "error" message when the prefix ends inside the header
C3_TruncationSafety ==
    cpc = "prefix" =>
        /\ ~cout.raised
        /\ Len(cin) < HeaderLen(cmsg) => cout.value.type = StrError
C3_Witness ==
    /\ cpc = "prefix"
    /\ cmsg.channel # <<>>
    /\ Len(cin) = HeaderLen(cmsg) - 1
    /\ cout.value.type = StrError
    /\ cout.value.channel = cmsg.channel

\* the five type strings of TYPE_TO_BYTE
KnownTypes == {StrSubscribe, StrUnsubscribe, StrData, StrError, StrConnected}

\* C17: a frame written with kind byte K in 0x01..0x05 and messageType T decodes
\* to a message of type T that carries kind K (the kind of a decoded message
\* is the one TYPE_TO_BYTE gives its type, decode returns no other)
C17_KindRoundTrip ==
    (cpc = "kind" /\ cin[1] \in MSG_SUBSCRIBE..MSG_CONNECTED) =>
        /\ ~cout.raised
        /\ cout.value.type = cmsg.type
        /\ TypeToByte(cout.value.type) = cin[1]

HeaderIntact ==
    /\ Len(cin) >= HeaderLen(cmsg)
    /\ Slice(cin, 0, HeaderLen(cmsg)) = Slice(cwire, 0, HeaderLen(cmsg))
\* the 4-byte payload length is missing from the input
PayloadLenMissing == Len(cin) < HeaderLen(cmsg) + 4
\* the payload length declares more bytes than remain in the input
PayloadLenOverlong ==
    /\ ~PayloadLenMissing
    /\ UnpackI(Slice(cin, HeaderLen(cmsg), HeaderLen(cmsg) + 4))
         > Len(cin) - HeaderLen(cmsg) - 4

\* C19: when the header was read in full and the payload length is missing or
\* declares more bytes than remain, decode returns the channel and messageType
\* of the header with an empty payload, not an error message
C19_HeaderIntactLeniency ==
    (/\ cpc \in {"prefix", "corrupt", "cut"}
     /\ HeaderIntact
     /\ PayloadLenMissing \/ PayloadLenOverlong)
    => cout = Return(Message(cmsg.type, cmsg.channel, <<>>))
C19_Witness ==
    /\ cpc = "corrupt"
    /\ HeaderIntact
    /\ PayloadLenOverlong
    /\ cmsg.data # <<>>
    /\ cmsg.channel # <<>>
    /\ cout = Return(Message(cmsg.type, cmsg.channel, <<>>))

\* the channel length of the input cannot be read or declares more bytes than
\* remain
ChannelCut == Len(cin) < 3 \/ 3 + UnpackH(Slice(cin, 1, 3)) > Len(cin)
\* offset of the messageType length in the input
TypeLenAt == 3 + UnpackH(Slice(cin, 1, 3))
\* the channel is there, and the messageType length cannot be read or declares
\* more bytes than remain
MsgTypeCut ==
    /\ ~ChannelCut
    /\ \/ TypeLenAt + 2 > Len(cin)
       \/ TypeLenAt + 2 + UnpackH(Slice(cin, TypeLenAt, TypeLenAt + 2)) > Len(cin)
\* an error message with a diagnostic text
IsErrorFrame(r) ==
    /\ ~r.raised
    /\ r.value.type = StrError
    /\ Len(r.value.data) = 1
    /\ r.value.data[1][1] = StrError
    /\ r.value.data[1][2].kind = "str"
    /\ r.value.data[1][2].v # <<>>

\* C20: for a non-empty input whose channel or messageType length cannot be
\* read or declares more bytes than remain, decode returns an error message
\* with a diagnostic text, whose channel is the channel when its bytes were
\* read and the empty string otherwise
C20_HeaderTruncation ==
    (cpc \in {"prefix", "corrupt", "kind", "cut"} /\ Len(cin) >= 1) =>
        /\ ChannelCut => IsErrorFrame(cout) /\ cout.value.channel = <<>>
        /\ MsgTypeCut =>
              /\ IsErrorFrame(cout)
              /\ LET channel == Utf8Decode(Slice(cin, 3, TypeLenAt))
                 IN  cout.value.channel = IF channel.raised THEN <<>> ELSE channel.value

\* the fields of d whose bytes, after the 2-byte field count, all lie in the
\* first n bytes of the encoded payload
FieldsWithin(d, n) ==
    LET fits == {k \in 0..Len(d) : 2 + Len(EncodeFields(SubSeq(d, 1, k))) <= n}
    IN  IF fits = {} THEN <<>>
        ELSE SubSeq(d, 1, CHOOSE k \in fits : \A j \in fits : j <= k)

\* C21: decoding a payload cut after n bytes returns exactly the fields that
\* lie whole in those n bytes, in wire order and with the values of the whole
\* payload; the field that is cut and the fields after it are not returned
C21_PayloadTruncation ==
    cpc = "payload_cut" =>
        cout = Return(Message(cmsg.type, cmsg.channel,
                              FieldsWithin(cmsg.data, Len(cin) - HeaderLen(cmsg) - 4)))
\* the payload of two fields is cut one byte before its end, inside the text of
\* the second field, and the first field is returned
C21_Witness ==
    /\ cpc = "payload_cut"
    /\ Len(cmsg.data) = 2
    /\ cmsg.data[1][2].kind = "float"
    /\ cmsg.data[2][2].kind = "str"
    /\ Len(cin) = Len(cwire) - 1
    /\ ~cout.raised
    /\ cout.value.data = <<cmsg.data[1]>>

\* index in the frame of m (from 1) of the tag byte of field j
TagAt(m, j) ==
    HeaderLen(m) + 4 + 2 + Len(EncodeFields(SubSeq(m.data, 1, j - 1)))
        + 2 + Len(Utf8Encode(m.data[j][1])) + 1
\* the value bytes written for a value, after its tag and its 4-byte length
ValueBytes(value) == SubSeq(EncodeValue(value), 6, Len(EncodeValue(value)))

\* C22: a frame in which the tag of field j is a byte outside 0x01..0x04 decodes
\* without an error to the same channel, type and keys; field j is the text of
\* its value bytes (ill-formed sequences replaced by U+FFFD) and every other
\* field, those after j included, has its own key and value
C22_UnknownTag ==
    cpc = "corrupt" =>
        \A j \in 1..Len(cmsg.data) :
            (/\ cin[TagAt(cmsg, j)] # cwire[TagAt(cmsg, j)]
             /\ cin[TagAt(cmsg, j)] \notin VAL_STRING..VAL_BYTES)
            => cout = Return(Message(cmsg.type, cmsg.channel,
                         [cmsg.data EXCEPT ![j] =
                             <<@[1], StrVal(Utf8DecodeReplace(ValueBytes(@[2])))>>]))
\* the first of two fields, the bytes 00 ff, is read under tag 0xff as the text
\* U+0000 U+FFFD, and the number after it is decoded
C22_Witness ==
    /\ cpc = "corrupt"
    /\ Len(cmsg.data) = 2
    /\ cmsg.data[1][2] = BytesVal(<<0, 255>>)
    /\ cmsg.data[2][2].kind = "float"
    /\ cin[TagAt(cmsg, 1)] = 255
    /\ ~cout.raised
    /\ cout.value.data = <<<<cmsg.data[1][1], StrVal(<<0, 65533>>)>>, cmsg.data[2]>>

\* bit k of the 52-bit fraction of a float, the most significant being bit 1
FracBit(f, k) ==
    IF k <= 4 THEN (f.hi \div (2 ^ (4 - k))) % 2
    ELSE IF k <= 28 THEN (f.mid \div (2 ^ (28 - k))) % 2
    ELSE (f.lo \div (2 ^ (52 - k))) % 2
\* the float f and the int n are the same number (f == n in Python)
FloatEqualsInt(f, n) ==
    LET L == Len(n.bits)
    IN  IF L = 0 THEN f.exp = 0 /\ f.hi = 0 /\ f.mid = 0 /\ f.lo = 0
        ELSE /\ f.sign = n.sign
             /\ f.exp = 1023 + L - 1
             /\ \A k \in 1..52 : FracBit(f, k) = (IF k + 1 <= L THEN n.bits[k + 1] ELSE 0)
             /\ \A i \in 54..L : n.bits[i] = 0

\* what the frame w holds for field j of m, whose decoded value is dv: the tag,
\* the length and the bytes its value kind asks for
TaggedAs(m, j, w, dv) ==
    LET value == m.data[j][2]
        t == TagAt(m, j)
        tag == w[t]
        len == UnpackI(SubSeq(w, t + 1, t + 4))
        val == SubSeq(w, t + 5, t + 4 + len)
    IN  CASE value.kind = "str" -> tag = VAL_STRING /\ val = Utf8Encode(value.v)
          [] value.kind = "bool" ->
               tag = VAL_BOOLEAN /\ len = 1 /\ val = <<IF value.v THEN 1 ELSE 0>>
          [] value.kind = "float" -> tag = VAL_NUMBER /\ len = 8 /\ dv = value
          [] value.kind = "int" ->
               tag = VAL_NUMBER /\ len = 8 /\ dv.kind = "float" /\ FloatEqualsInt(dv, value)
          [] value.kind = "bytes" -> tag = VAL_BYTES /\ val = value.v
          [] value.kind \in {"dict", "list"} -> tag = VAL_STRING /\ dv.kind = "str"
          [] value.kind = "none" -> tag = VAL_STRING /\ len = 0
          [] value.kind = "other" -> tag = VAL_STRING /\ val = Utf8Encode(value.str)

\* C23: encode writes every value under the tag of its kind: text as String, a
\* boolean as Boolean with length 1 and byte 1 or 0, an int or a float as
\* Number with length 8, so that an int decodes as the float equal to it, bytes
\* as Bytes, a dict or a list as String, None as a String of length 0
C23_ValueTagging ==
    cpc \in {"whole", "extra"} =>
        /\ ~cout.raised
        /\ \A j \in 1..Len(cmsg.data) : TaggedAs(cmsg, j, cwire, cout.value.data[j][2])

\* C29: decode of the zero-length byte string returns the message of type
\* "error" and channel "" whose payload is {"error": "Empty message"}
C29_EmptyInput ==
    (cpc = "prefix" /\ Len(cin) = 0) =>
        cout = Return(Message(StrError, <<>>, <<<<StrError, StrVal(StrEmptyMessage)>>>>))
C29_Witness ==
    /\ cpc = "prefix"
    /\ Len(cin) = 0
    /\ cmsg.data # <<>>
    /\ ~cout.raised
    /\ cout.value.data[1][2].v = StrEmptyMessage

\* the value a field with this tag and these value bytes stands for (the table
\* of value types of the frame format, with the lenient cases of lines 280-294)
FieldMeaning(w) ==
    CASE w.tag = VAL_STRING -> StrVal(Utf8DecodeReplace(w.bytes))
      [] w.tag = VAL_NUMBER ->
           IF Len(w.bytes) >= 8 THEN UnpackD(SubSeq(w.bytes, 1, 8)) ELSE FloatZero
      [] w.tag = VAL_BOOLEAN -> BoolVal(Len(w.bytes) >= 1 /\ w.bytes[1] = 1)
      [] w.tag = VAL_BYTES -> BytesVal(w.bytes)
      [] OTHER -> StrVal(Utf8DecodeReplace(w.bytes))
\* the dict of the first n fields of fs, each with its own key and meaning
RECURSIVE FieldsMeaning(_, _)
FieldsMeaning(fs, n) ==
    IF n = 0 THEN <<>>
    ELSE DictSet(FieldsMeaning(fs, n - 1), fs[n][1], FieldMeaning(fs[n][2]))
\* the field count the payload of the frame declares
DeclaredCount == UnpackH(Slice(cin, HeaderLen(cmsg) + 4, HeaderLen(cmsg) + 6))

\* C37: a payload whose fields are all there decodes, whatever the tags and the
\* declared value lengths, to the first fields up to the declared count, each
\* under its own key with the value its own bytes stand for (0.0 for a Number of
\* fewer than 8 bytes, false for a Boolean of 0 bytes, text for an unknown tag),
\* and the result has no more entries than the declared count
C37_FieldsInStep ==
    cpc = "fields" =>
        /\ ~cout.raised
        /\ cout.value.data = FieldsMeaning(cmsg.data, IF DeclaredCount < Len(cmsg.data) THEN DeclaredCount
                                                      ELSE Len(cmsg.data))
        /\ Len(cout.value.data) <= DeclaredCount

(***************************************************************************)
(* WebSocketClient.  asyncio runs one coroutine at a time, each from one   *)
(* await to the next: an action is one such run.  A coroutine is a caller  *)
(* of the public API or a receive-loop task made by connect().  Where two  *)
(* code paths join before the next await (the top of the receive loop, the *)
(* next iteration of a replay loop, the tail of disconnect) the coroutine  *)
(* keeps the event loop, recorded in cur, and nothing else runs.           *)
(***************************************************************************)
MaxCalls == 3
MaxSubs == 3
MaxRegs == 2
MaxSockets == 2
MaxTasks == 2
MaxMsgs == 2
MaxFails == 2

Callers == {1, 2}
Channels == {"A", "B"}
EventTypes == {"X", "Y"}
\* the wildcard key of self._handlers
Wildcard == "*"
HandlerKeys == EventTypes \cup {Wildcard}
HandlerIds == {1, 2}
\* what the receive loop reads from a socket: a message that decodes to a dict
\* of that type, or one on which decoding raises
Inbound == EventTypes \cup {"bad"}
\* (auto_reconnect, reconnect_delay, max_reconnect_delay) given to __init__
Configs ==
    {[auto |-> TRUE, d0 |-> 1, dmax |-> 3], [auto |-> FALSE, d0 |-> 1, dmax |-> 3]}

VARIABLES
    cfg,            \* _auto_reconnect, _reconnect_delay, _max_reconnect_delay
    ws,             \* self._ws: a socket id, 0 for None
    running,        \* self._running
    handlers,       \* self._handlers: key -> handler id, 0 for absent
    subscriptions,  \* self._subscriptions
    curDelay,       \* self._current_reconnect_delay
    receiveTask,    \* self._receive_task: a task id, 0 for None
    sock,           \* the sockets websockets.connect has returned
    task,           \* the receive-loop tasks asyncio.create_task has made
    caller,         \* the coroutines calling the public API
    cur,            \* the coroutine that keeps the event loop, <<>> for none
    ncalls,         \* history: calls of connect, disconnect and the send_* methods
    nsubs,          \* history: calls of subscribe and unsubscribe
    nregs,          \* history: calls of on and off
    nmsgs,          \* history: messages the server has sent
    terminal,       \* history: disconnect() has returned, no connect() call was in
                    \* progress during it and none was made since
    fails,          \* history: failed reconnect attempts since the last successful connect
    pending         \* history: channels whose last subscribe() found the client not
                    \* connected and for which no Subscribe frame was written since
clientVars ==
    <<cfg, ws, running, handlers, subscriptions, curDelay, receiveTask, sock, task,
      caller, cur, ncalls, nsubs, nregs, nmsgs, terminal, fails, pending>>
vars == <<codecVars, clientVars>>

Min(a, b) == IF a < b THEN a ELSE b
Idle == <<>>
Tasks == 1..Len(task)
Socks == 1..Len(sock)

NoCaller ==
    [op |-> "none", pc |-> "idle", ch |-> "", sock |-> 0, task |-> 0, todo |-> {},
     result |-> "none", raced |-> FALSE, absent |-> FALSE]
NewTask ==
    [pc |-> "new", cancel |-> FALSE, sock |-> 0, msg |-> "", h |-> 0, seen |-> {},
     size |-> 0, wait |-> 0, waitFails |-> 0, faulted |-> {}]
NewSocket(snap, by) ==
    [st |-> "open", out |-> <<>>, inq |-> <<>>, waiter |-> 0, snap |-> snap, by |-> by]
Frame(kind, ch) == [k |-> kind, ch |-> ch]

\* a socket that is no longer open: what was written to it is not kept
Shut(sk, st) == [sk EXCEPT !.st = st, !.out = <<>>, !.snap = {}]
\* ws.open
IsOpen(s) == s # 0 /\ sock[s].st = "open"
\* the connected property
Connected == IsOpen(ws)
\* the guard of _send_message without its test of ws.open
GuardNoneOnly == ws = 0
\* line 241: not self._ws or not self._ws.open
NotConnectedGuard == ws = 0 \/ ~IsOpen(ws)
TaskDone(t) == task[t].pc = "done"

\* the client after __init__ (lines 89-98), with one of the configurations cfgs
ClientStart(cfgs) ==
    /\ cfg \in cfgs
    /\ ws = 0
    /\ running = FALSE
    /\ handlers = [k \in HandlerKeys |-> 0]
    /\ subscriptions = {}
    /\ curDelay = cfg.d0
    /\ receiveTask = 0
    /\ sock = <<>>
    /\ task = <<>>
    /\ caller = [c \in Callers |-> NoCaller]
    /\ cur = Idle
    /\ ncalls = 0
    /\ nsubs = 0
    /\ nregs = 0
    /\ nmsgs = 0
    /\ terminal = FALSE
    /\ fails = 0
    /\ pending = {}
ClientInit == ClientStart(Configs)

\* an API call begins: the caller is idle and no coroutine keeps the event loop
\* (callers are interchangeable: the idle caller of least number makes the call)
CanCall(c) ==
    /\ cur = Idle
    /\ caller[c].pc = "idle"
    /\ \A d \in Callers : d < c => caller[d].pc # "idle"
\* the call has returned or raised: only its outcome is kept
Returns(c, op, result) == [NoCaller EXCEPT !.result = result]
\* ws.send(frame) raised ConnectionClosed: possible once the socket is not open
SendFailed(s) == IF sock[s].st = "open" THEN {FALSE} ELSE {FALSE, TRUE}

(***************************************************************************)
(* connect()                                                               *)
(***************************************************************************)
CallConnect(c) ==
    /\ CanCall(c)
    /\ ncalls < MaxCalls
    /\ caller' = [d \in Callers |->
                     IF d = c THEN [NoCaller EXCEPT !.op = "connect", !.pc = "connecting"]
                     ELSE IF caller[d].op = "disconnect"
                     THEN [caller[d] EXCEPT !.raced = TRUE]
                     ELSE caller[d]]
    /\ ncalls' = ncalls + 1
    /\ terminal' = FALSE
    /\ UNCHANGED <<codecVars, cfg, pending, ws, running, handlers, subscriptions, curDelay, receiveTask,
                   sock, task, cur, nmsgs, fails, nsubs, nregs>>

\* line 115 raises: WebSocketError("Failed to connect")
ConnectRefused(c) ==
    /\ cur = Idle
    /\ caller[c].pc = "connecting"
    /\ caller' = [caller EXCEPT ![c] = Returns(c, "connect", "connect_failed")]
    /\ UNCHANGED <<codecVars, cfg, pending, ws, running, handlers, subscriptions, curDelay, receiveTask,
                   sock, task, cur, nmsgs, terminal, fails, ncalls, nsubs, nregs>>

\* lines 115-123: the socket is there, the receive loop is scheduled, the replay
\* iterates over a copy of the subscriptions
ConnectEstablished(c) ==
    /\ cur = Idle
    /\ caller[c].pc = "connecting"
    /\ Len(sock) < MaxSockets
    /\ Len(task) < MaxTasks
    /\ sock' = Append(sock, NewSocket(subscriptions, "connect"))
    /\ ws' = Len(sock) + 1
    /\ running' = TRUE
    /\ curDelay' = cfg.d0
    /\ task' = Append(task, NewTask)
    /\ receiveTask' = Len(task) + 1
    /\ fails' = 0
    /\ caller' = [caller EXCEPT ![c].pc = "replay", ![c].todo = subscriptions]
    /\ cur' = <<"caller", c>>
    /\ UNCHANGED <<codecVars, cfg, pending, handlers, subscriptions, nmsgs, terminal, ncalls, nsubs, nregs>>

\* lines 123-124 and _send_message up to the await of ws.send
ConnectReplay(c) ==
    /\ cur = <<"caller", c>>
    /\ caller[c].pc = "replay"
    /\ cur' = Idle
    /\ IF caller[c].todo = {}
       THEN /\ caller' = [caller EXCEPT ![c] = Returns(c, "connect", "ok")]
            /\ sock' = sock
            /\ pending' = pending
       ELSE \E ch \in caller[c].todo :
              IF NotConnectedGuard
              THEN /\ caller' = [caller EXCEPT ![c] = Returns(c, "connect", "connect_failed")]
                   /\ sock' = sock
                   /\ pending' = pending
              ELSE /\ sock' = [sock EXCEPT ![ws].out = Append(@, Frame("subscribe", ch))]
                   /\ pending' = pending \ {ch}
                   /\ caller' = [caller EXCEPT ![c].pc = "replay_sent", ![c].sock = ws,
                                               ![c].todo = @ \ {ch}]
    /\ UNCHANGED <<codecVars, cfg, ws, running, handlers, subscriptions, curDelay, receiveTask,
                   task, nmsgs, terminal, fails, ncalls, nsubs, nregs>>

\* ws.send returns, or raises and connect raises WebSocketError
ConnectReplaySent(c) ==
    /\ cur = Idle
    /\ caller[c].pc = "replay_sent"
    /\ \E failed \in SendFailed(caller[c].sock) :
         IF failed
         THEN /\ caller' = [caller EXCEPT ![c] = Returns(c, "connect", "connect_failed")]
              /\ cur' = Idle
         ELSE /\ caller' = [caller EXCEPT ![c].pc = "replay"]
              /\ cur' = <<"caller", c>>
    /\ UNCHANGED <<codecVars, cfg, pending, ws, running, handlers, subscriptions, curDelay, receiveTask,
                   sock, task, nmsgs, terminal, fails, ncalls, nsubs, nregs>>

(***************************************************************************)
(* disconnect()                                                            *)
(***************************************************************************)
\* no connect() call is in progress in another coroutine (caller[c].raced: one
\* was in progress at some time during this disconnect())
NoConnectInFlight(c) ==
    \A d \in Callers \ {c} : caller[d].op = "connect" => caller[d].pc = "idle"

\* lines 131-138: stop, cancel the receive task and await it
CallDisconnect(c) ==
    /\ CanCall(c)
    /\ ncalls < MaxCalls
    /\ running' = FALSE
    /\ ncalls' = ncalls + 1
    /\ IF receiveTask # 0 /\ ~TaskDone(receiveTask)
       THEN /\ task' = [task EXCEPT ![receiveTask].cancel = TRUE]
            /\ caller' = [caller EXCEPT ![c] = [NoCaller EXCEPT !.op = "disconnect",
                                                   !.pc = "await_task", !.task = receiveTask,
                                                   !.raced = ~NoConnectInFlight(c)]]
            /\ receiveTask' = receiveTask
            /\ cur' = Idle
       ELSE /\ task' = task
            /\ caller' = [caller EXCEPT ![c] = [NoCaller EXCEPT !.op = "disconnect",
                                                   !.pc = "disc_close",
                                                   !.raced = ~NoConnectInFlight(c)]]
            /\ receiveTask' = 0
            /\ cur' = <<"caller", c>>
    /\ UNCHANGED <<codecVars, cfg, pending, ws, handlers, subscriptions, curDelay, sock, nmsgs, terminal,
                   fails, nsubs, nregs>>

\* line 139, once the awaited task has ended
DisconnectTaskDone(c) ==
    /\ cur = Idle
    /\ caller[c].pc = "await_task"
    /\ TaskDone(caller[c].task)
    /\ receiveTask' = 0
    /\ caller' = [caller EXCEPT ![c].pc = "disc_close"]
    /\ cur' = <<"caller", c>>
    /\ UNCHANGED <<codecVars, cfg, pending, ws, running, handlers, subscriptions, curDelay, sock, task,
                   nmsgs, terminal, fails, ncalls, nsubs, nregs>>

\* lines 141-142: close the socket if there is one
DisconnectClose(c) ==
    /\ cur = <<"caller", c>>
    /\ caller[c].pc = "disc_close"
    /\ cur' = Idle
    /\ IF ws # 0
       THEN /\ sock' = [sock EXCEPT ![ws] = Shut(@, "closed")]
            /\ caller' = [caller EXCEPT ![c].pc = "closing", ![c].sock = ws]
            /\ terminal' = terminal
       ELSE /\ sock' = sock
            /\ caller' = [caller EXCEPT ![c] = Returns(c, "disconnect", "ok")]
            /\ terminal' = ~caller[c].raced
    /\ UNCHANGED <<codecVars, cfg, pending, ws, running, handlers, subscriptions, curDelay, receiveTask,
                   task, nmsgs, fails, ncalls, nsubs, nregs>>

\* disconnect() that also forgets the subscriptions once the socket is closed
DisconnectForgets(c) ==
    /\ cur = Idle
    /\ caller[c].pc = "closing"
    /\ ws' = 0
    /\ subscriptions' = {}
    /\ caller' = [caller EXCEPT ![c] = Returns(c, "disconnect", "ok")]
    /\ terminal' = ~caller[c].raced
    /\ UNCHANGED <<codecVars, cfg, pending, running, handlers, curDelay, receiveTask, sock,
                   task, cur, nmsgs, fails, ncalls, nsubs, nregs>>

\* line 143, once ws.close() has returned
DisconnectClosed(c) ==
    /\ cur = Idle
    /\ caller[c].pc = "closing"
    /\ ws' = 0
    /\ caller' = [caller EXCEPT ![c] = Returns(c, "disconnect", "ok")]
    /\ terminal' = ~caller[c].raced
    /\ UNCHANGED <<codecVars, cfg, pending, running, handlers, subscriptions, curDelay, receiveTask, sock,
                   task, cur, nmsgs, fails, ncalls, nsubs, nregs>>

(***************************************************************************)
(* subscribe(), unsubscribe(), the send_* methods, on(), off()             *)
(***************************************************************************)
\* _send_message after its guard: the frame is written, ws.send is awaited
WriteAndAwait(c, op, frame) ==
    /\ sock' = [sock EXCEPT ![ws].out = Append(@, frame)]
    /\ caller' = [caller EXCEPT ![c] = [NoCaller EXCEPT !.op = op, !.pc = "sending",
                                           !.ch = frame.ch, !.sock = ws]]

CallSubscribe(c, ch) ==
    /\ CanCall(c)
    /\ nsubs < MaxSubs
    /\ subscriptions' = subscriptions \cup {ch}
    /\ nsubs' = nsubs + 1
    /\ pending' = IF Connected THEN pending \ {ch} ELSE pending \cup {ch}
    /\ IF Connected
       THEN WriteAndAwait(c, "subscribe", Frame("subscribe", ch))
       ELSE /\ caller' = [caller EXCEPT ![c] = Returns(c, "subscribe", "ok")]
            /\ sock' = sock
    /\ UNCHANGED <<codecVars, cfg, ws, running, handlers, curDelay, receiveTask, task, cur, nmsgs,
                   terminal, fails, ncalls, nregs>>

\* lines 163-165: discard(channel), then the Unsubscribe frame when connected
\* (caller[c].absent: the channel was not in the set when the call was made)
CallUnsubscribe(c, ch) ==
    /\ CanCall(c)
    /\ nsubs < MaxSubs
    /\ subscriptions' = subscriptions \ {ch}
    /\ nsubs' = nsubs + 1
    /\ pending' = pending \ {ch}
    /\ IF Connected
       THEN /\ sock' = [sock EXCEPT ![ws].out = Append(@, Frame("unsubscribe", ch))]
            /\ caller' = [caller EXCEPT ![c] =
                             [NoCaller EXCEPT !.op = "unsubscribe", !.pc = "sending", !.ch = ch,
                                              !.sock = ws, !.absent = ch \notin subscriptions]]
       ELSE /\ caller' = [caller EXCEPT ![c] = Returns(c, "unsubscribe", "ok")]
            /\ sock' = sock
    /\ UNCHANGED <<codecVars, cfg, ws, running, handlers, curDelay, receiveTask, task, cur, nmsgs,
                   terminal, fails, ncalls, nregs>>

\* send_terminal_input, resize_terminal, start_command: _send_message of a frame
\* that is neither subscribe nor unsubscribe
CallSend(c) ==
    /\ CanCall(c)
    /\ ncalls < MaxCalls
    /\ ncalls' = ncalls + 1
    /\ IF NotConnectedGuard
       THEN /\ caller' = [caller EXCEPT ![c] = Returns(c, "send", "not_connected")]
            /\ sock' = sock
       ELSE WriteAndAwait(c, "send", Frame("message", ""))
    /\ UNCHANGED <<codecVars, cfg, pending, ws, running, handlers, subscriptions, curDelay, receiveTask,
                   task, cur, nmsgs, terminal, fails, nsubs, nregs>>

\* ws.send returns, or raises and _send_message raises WebSocketError
SendDone(c) ==
    /\ cur = Idle
    /\ caller[c].pc = "sending"
    /\ \E failed \in SendFailed(caller[c].sock) :
         caller' = [caller EXCEPT ![c] = Returns(c, caller[c].op,
                                                 IF failed THEN "send_failed" ELSE "ok")]
    /\ UNCHANGED <<codecVars, cfg, pending, ws, running, handlers, subscriptions, curDelay, receiveTask,
                   sock, task, cur, nmsgs, terminal, fails, ncalls, nsubs, nregs>>

\* on() as self._handlers.setdefault(event_type, handler): the first handler
\* registered for a type stays
CallOnKeepsFirst(c, key, h) ==
    /\ CanCall(c)
    /\ nregs < MaxRegs
    /\ handlers' = [handlers EXCEPT ![key] = IF @ = 0 THEN h ELSE @]
    /\ nregs' = nregs + 1
    /\ caller' = [caller EXCEPT ![c] = Returns(c, "on", "ok")]
    /\ UNCHANGED <<codecVars, cfg, pending, ws, running, subscriptions, curDelay, receiveTask, sock, task,
                   cur, nmsgs, terminal, fails, ncalls, nsubs>>

\* lines 167-181: self._handlers[event_type] = handler
CallOn(c, key, h) ==
    /\ CanCall(c)
    /\ nregs < MaxRegs
    /\ handlers' = [handlers EXCEPT ![key] = h]
    /\ nregs' = nregs + 1
    /\ caller' = [caller EXCEPT ![c] = Returns(c, "on", "ok")]
    /\ UNCHANGED <<codecVars, cfg, pending, ws, running, subscriptions, curDelay, receiveTask, sock, task,
                   cur, nmsgs, terminal, fails, ncalls, nsubs>>

\* lines 183-190: self._handlers.pop(event_type, None)
CallOff(c, key) ==
    /\ CanCall(c)
    /\ nregs < MaxRegs
    /\ handlers' = [handlers EXCEPT ![key] = 0]
    /\ nregs' = nregs + 1
    /\ caller' = [caller EXCEPT ![c] = Returns(c, "off", "ok")]
    /\ UNCHANGED <<codecVars, cfg, pending, ws, running, subscriptions, curDelay, receiveTask, sock, task,
                   cur, nmsgs, terminal, fails, ncalls, nsubs>>

(***************************************************************************)
(* _receive_loop and _reconnect                                            *)
(***************************************************************************)
\* a task record at a program point keeps only the locals that are live there
At(tk, pc) == [NewTask EXCEPT !.pc = pc, !.faulted = tk.faulted]
TaskRuns(t) == cur = Idle /\ t \in Tasks /\ ~task[t].cancel
\* the coroutine goes on without an await when it is at the top of the loop or
\* at the next iteration of the replay
KeepsLoop(t, tk) == IF tk.pc \in {"top", "rc_replay"} THEN <<"task", t>> ELSE Idle

\* lines 298-303: except Exception
OnException(tk) ==
    IF cfg.auto /\ running THEN At(tk, "sleep01") ELSE At(tk, "done")

\* a loop that gives up instead of calling _reconnect
GiveUp(t, tk, sk) ==
    /\ sock' = sk
    /\ task' = [task EXCEPT ![t] = At(tk, "done")]

\* _reconnect lines 307-315, up to its first await: close the socket if there is
\* one, else sleep for the current delay
EnterReconnect(t, tk, sk) ==
    IF ws # 0
    THEN /\ sock' = [sk EXCEPT ![ws] = Shut(@, "closed")]
         /\ task' = [task EXCEPT ![t] = At(tk, "rc_close")]
    ELSE /\ sock' = sk
         /\ task' = [task EXCEPT ![t] = [At(tk, "backoff") EXCEPT !.wait = curDelay,
                                                                  !.waitFails = fails]]

\* lines 254-263: the loop condition, the open check, and recv up to its await
\* (recv raises RuntimeError while another coroutine is waiting in recv)
LoopTop(t) ==
    /\ t \in Tasks
    /\ ~task[t].cancel
    /\ \/ task[t].pc = "new" /\ cur = Idle
       \/ task[t].pc = "top" /\ cur = <<"task", t>>
    /\ cur' = Idle
    /\ IF ~running
       THEN /\ task' = [task EXCEPT ![t] = At(task[t], "done")]
            /\ sock' = sock
       ELSE IF ~Connected
       THEN IF cfg.auto
            THEN EnterReconnect(t, task[t], sock)
            ELSE /\ task' = [task EXCEPT ![t] = At(task[t], "done")]
                 /\ sock' = sock
       ELSE IF sock[ws].waiter # 0
       THEN /\ task' = [task EXCEPT ![t] = OnException(task[t])]
            /\ sock' = sock
       ELSE /\ task' = [task EXCEPT ![t] = [At(task[t], "recv") EXCEPT !.sock = ws]]
            /\ sock' = [sock EXCEPT ![ws].waiter = t]
    /\ UNCHANGED <<codecVars, cfg, pending, ws, running, handlers, subscriptions, curDelay, receiveTask,
                   caller, nmsgs, terminal, fails, ncalls, nsubs, nregs>>

\* lines 281-287 on: the wildcard handler is awaited if there is one
ToWildcard(tk) ==
    IF handlers[Wildcard] # 0
    THEN [At(tk, "wild") EXCEPT !.msg = tk.msg, !.h = handlers[Wildcard]]
    ELSE At(tk, "top")

\* lines 272-279: the handler of the message's type is awaited if there is one
Dispatch(tk, m) ==
    IF handlers[m] # 0 THEN [At(tk, "handler") EXCEPT !.msg = m, !.h = handlers[m]]
    ELSE ToWildcard([tk EXCEPT !.msg = m])

\* lines 263-269: recv returns a message, which is decoded
RecvMsg(t) ==
    /\ TaskRuns(t)
    /\ task[t].pc = "recv"
    /\ sock[task[t].sock].inq # <<>>
    /\ LET m == Head(sock[task[t].sock].inq)
       IN  task' = [task EXCEPT ![t] = IF m = "bad" THEN OnException(task[t])
                                       ELSE Dispatch(task[t], m)]
    /\ sock' = [sock EXCEPT ![task[t].sock].inq = Tail(@), ![task[t].sock].waiter = 0]
    /\ cur' = KeepsLoop(t, task'[t])
    /\ UNCHANGED <<codecVars, cfg, pending, ws, running, handlers, subscriptions, curDelay, receiveTask,
                   caller, nmsgs, terminal, fails, ncalls, nsubs, nregs>>

\* the ConnectionClosed branch without its test of self._auto_reconnect
RecvClosedReconnects(t) ==
    /\ TaskRuns(t)
    /\ task[t].pc = "recv"
    /\ sock[task[t].sock].st # "open"
    /\ sock[task[t].sock].inq = <<>>
    /\ LET sk == [sock EXCEPT ![task[t].sock].waiter = 0]
       IN  IF running
           THEN EnterReconnect(t, task[t], sk)
           ELSE /\ task' = [task EXCEPT ![t] = At(task[t], "done")]
                /\ sock' = sk
    /\ UNCHANGED <<codecVars, cfg, pending, ws, running, handlers, subscriptions, curDelay,
                   receiveTask, caller, cur, nmsgs, terminal, fails, ncalls, nsubs, nregs>>

\* lines 289-293: recv raises ConnectionClosed
RecvClosed(t) ==
    /\ TaskRuns(t)
    /\ task[t].pc = "recv"
    /\ sock[task[t].sock].st # "open"
    /\ sock[task[t].sock].inq = <<>>
    /\ LET sk == [sock EXCEPT ![task[t].sock].waiter = 0]
       IN  IF cfg.auto /\ running
           THEN EnterReconnect(t, task[t], sk)
           ELSE /\ task' = [task EXCEPT ![t] = At(task[t], "done")]
                /\ sock' = sk
    /\ UNCHANGED <<codecVars, cfg, pending, ws, running, handlers, subscriptions, curDelay, receiveTask,
                   caller, cur, nmsgs, terminal, fails, ncalls, nsubs, nregs>>

\* the wildcard lookup as an else branch of the type lookup: a message that had
\* a handler of its type is not given to the wildcard handler
AfterHandlerSkipsWildcard(tk, raised) ==
    At([tk EXCEPT !.faulted = IF raised THEN @ \cup {tk.msg} ELSE @], "top")

\* the handler awaited without the try of lines 275-279: its exception reaches
\* the except Exception of the loop
AfterHandlerUncaught(tk, raised) ==
    IF raised THEN OnException(tk) ELSE ToWildcard(tk)

\* lines 274-279: the handler returned or raised; except Exception: pass
AfterHandler(tk, raised) ==
    ToWildcard([tk EXCEPT !.faulted = IF raised THEN @ \cup {tk.msg} ELSE @])
\* lines 283-287: the same for the wildcard handler
AfterWildcard(tk, raised) ==
    At([tk EXCEPT !.faulted = IF raised THEN @ \cup {tk.msg} ELSE @], "top")

HandlerReturned(t) ==
    /\ TaskRuns(t)
    /\ task[t].pc = "handler"
    /\ task' = [task EXCEPT ![t] = AfterHandler(task[t], FALSE)]
    /\ cur' = KeepsLoop(t, task'[t])
    /\ UNCHANGED <<codecVars, cfg, pending, ws, running, handlers, subscriptions, curDelay, receiveTask,
                   sock, caller, nmsgs, terminal, fails, ncalls, nsubs, nregs>>

HandlerRaised(t) ==
    /\ TaskRuns(t)
    /\ task[t].pc = "handler"
    /\ task' = [task EXCEPT ![t] = AfterHandler(task[t], TRUE)]
    /\ cur' = KeepsLoop(t, task'[t])
    /\ UNCHANGED <<codecVars, cfg, pending, ws, running, handlers, subscriptions, curDelay, receiveTask,
                   sock, caller, nmsgs, terminal, fails, ncalls, nsubs, nregs>>

WildcardReturned(t) ==
    /\ TaskRuns(t)
    /\ task[t].pc = "wild"
    /\ task' = [task EXCEPT ![t] = AfterWildcard(task[t], FALSE)]
    /\ cur' = KeepsLoop(t, task'[t])
    /\ UNCHANGED <<codecVars, cfg, pending, ws, running, handlers, subscriptions, curDelay, receiveTask,
                   sock, caller, nmsgs, terminal, fails, ncalls, nsubs, nregs>>

WildcardRaised(t) ==
    /\ TaskRuns(t)
    /\ task[t].pc = "wild"
    /\ task' = [task EXCEPT ![t] = AfterWildcard(task[t], TRUE)]
    /\ cur' = KeepsLoop(t, task'[t])
    /\ UNCHANGED <<codecVars, cfg, pending, ws, running, handlers, subscriptions, curDelay, receiveTask,
                   sock, caller, nmsgs, terminal, fails, ncalls, nsubs, nregs>>

\* line 301: asyncio.sleep(0.1) is over
Sleep01Elapsed(t) ==
    /\ TaskRuns(t)
    /\ task[t].pc = "sleep01"
    /\ task' = [task EXCEPT ![t] = At(task[t], "top")]
    /\ cur' = <<"task", t>>
    /\ UNCHANGED <<codecVars, cfg, pending, ws, running, handlers, subscriptions, curDelay, receiveTask,
                   sock, caller, nmsgs, terminal, fails, ncalls, nsubs, nregs>>

\* lines 309-315: ws.close() has returned; self._ws = None; sleep
ReconnectClosed(t) ==
    /\ TaskRuns(t)
    /\ task[t].pc = "rc_close"
    /\ ws' = 0
    /\ task' = [task EXCEPT ![t] = [At(task[t], "backoff") EXCEPT !.wait = curDelay,
                                                                  !.waitFails = fails]]
    /\ UNCHANGED <<codecVars, cfg, pending, running, handlers, subscriptions, curDelay, receiveTask, sock,
                   caller, cur, nmsgs, terminal, fails, ncalls, nsubs, nregs>>

\* lines 318-321
NextDelay(d) == Min(d * 2, cfg.dmax)

\* lines 315-324: the sleep is over, the delay is doubled, websockets.connect is awaited
BackoffElapsed(t) ==
    /\ TaskRuns(t)
    /\ task[t].pc = "backoff"
    /\ curDelay' = NextDelay(curDelay)
    /\ task' = [task EXCEPT ![t] = At(task[t], "rc_connecting")]
    /\ UNCHANGED <<codecVars, cfg, pending, ws, running, handlers, subscriptions, receiveTask, sock,
                   caller, cur, nmsgs, terminal, fails, ncalls, nsubs, nregs>>

\* lines 331-333: websockets.connect raises, _reconnect returns
ReconnectRefused(t) ==
    /\ TaskRuns(t)
    /\ task[t].pc = "rc_connecting"
    /\ fails < MaxFails
    /\ fails' = fails + 1
    /\ task' = [task EXCEPT ![t] = At(task[t], "top")]
    /\ cur' = <<"task", t>>
    /\ UNCHANGED <<codecVars, cfg, pending, ws, running, handlers, subscriptions, curDelay, receiveTask,
                   sock, caller, nmsgs, terminal, ncalls, nsubs, nregs>>

\* lines 324-328: the socket is there, the delay is reset, the replay iterates
\* over the live set
ReconnectEstablished(t) ==
    /\ TaskRuns(t)
    /\ task[t].pc = "rc_connecting"
    /\ Len(sock) < MaxSockets
    /\ sock' = Append(sock, NewSocket(subscriptions, "reconnect"))
    /\ ws' = Len(sock) + 1
    /\ curDelay' = cfg.d0
    /\ fails' = 0
    /\ task' = [task EXCEPT ![t] = [At(task[t], "rc_replay") EXCEPT
                                        !.size = Cardinality(subscriptions)]]
    /\ cur' = <<"task", t>>
    /\ UNCHANGED <<codecVars, cfg, pending, running, handlers, subscriptions, receiveTask, caller, nmsgs,
                   terminal, ncalls, nsubs, nregs>>

\* lines 328-329: the next channel of the set iterator (RuntimeError when the
\* set changed size; a channel not yet seen otherwise), _send_message up to the
\* await of ws.send; any exception ends _reconnect
ReconnectReplay(t) ==
    /\ cur = <<"task", t>>
    /\ task[t].pc = "rc_replay"
    /\ IF Cardinality(subscriptions) # task[t].size \/ subscriptions \ task[t].seen = {}
       THEN /\ task' = [task EXCEPT ![t] = At(task[t], "top")]
            /\ sock' = sock
            /\ pending' = pending
       ELSE \E ch \in subscriptions \ task[t].seen :
              IF NotConnectedGuard
              THEN /\ task' = [task EXCEPT ![t] = At(task[t], "top")]
                   /\ sock' = sock
                   /\ pending' = pending
              ELSE /\ sock' = [sock EXCEPT ![ws].out = Append(@, Frame("subscribe", ch))]
                   /\ pending' = pending \ {ch}
                   /\ task' = [task EXCEPT ![t].pc = "rc_replay_sent", ![t].sock = ws,
                                           ![t].seen = @ \cup {ch}]
    /\ cur' = KeepsLoop(t, task'[t])
    /\ UNCHANGED <<codecVars, cfg, ws, running, handlers, subscriptions, curDelay, receiveTask,
                   caller, nmsgs, terminal, fails, ncalls, nsubs, nregs>>

\* ws.send returns, or raises and _reconnect returns
ReconnectReplaySent(t) ==
    /\ TaskRuns(t)
    /\ task[t].pc = "rc_replay_sent"
    /\ \E failed \in SendFailed(task[t].sock) :
         task' = [task EXCEPT ![t] = IF failed THEN At(task[t], "top")
                                       ELSE [task[t] EXCEPT !.pc = "rc_replay", !.sock = 0]]
    /\ cur' = <<"task", t>>
    /\ UNCHANGED <<codecVars, cfg, pending, ws, running, handlers, subscriptions, curDelay, receiveTask,
                   sock, caller, nmsgs, terminal, fails, ncalls, nsubs, nregs>>

\* task.cancel(): CancelledError is thrown at the await the task is suspended in
\* (or before its first step); lines 295-296, or it leaves the coroutine
TaskCancelled(t) ==
    /\ cur = Idle
    /\ t \in Tasks
    /\ task[t].cancel
    /\ task[t].pc # "done"
    /\ task' = [task EXCEPT ![t] = [At(task[t], "done") EXCEPT !.cancel = TRUE]]
    /\ sock' = IF task[t].pc = "recv" THEN [sock EXCEPT ![task[t].sock].waiter = 0] ELSE sock
    /\ UNCHANGED <<codecVars, cfg, pending, ws, running, handlers, subscriptions, curDelay, receiveTask,
                   caller, cur, nmsgs, terminal, fails, ncalls, nsubs, nregs>>

(***************************************************************************)
(* The peer and the network                                                *)
(***************************************************************************)
ServerSend(s, m) ==
    /\ cur = Idle
    /\ s \in Socks
    /\ sock[s].st = "open"
    /\ nmsgs < MaxMsgs
    /\ sock' = [sock EXCEPT ![s].inq = Append(@, m)]
    /\ nmsgs' = nmsgs + 1
    /\ UNCHANGED <<codecVars, cfg, pending, ws, running, handlers, subscriptions, curDelay, receiveTask,
                   task, caller, cur, terminal, fails, ncalls, nsubs, nregs>>

ConnectionLost(s) ==
    /\ cur = Idle
    /\ s \in Socks
    /\ sock[s].st = "open"
    /\ sock' = [sock EXCEPT ![s] = Shut(@, "lost")]
    /\ UNCHANGED <<codecVars, cfg, pending, ws, running, handlers, subscriptions, curDelay, receiveTask,
                   task, caller, cur, nmsgs, terminal, fails, ncalls, nsubs, nregs>>

ConnectSteps(c) ==
    \/ CallConnect(c) \/ ConnectRefused(c) \/ ConnectEstablished(c) \/ ConnectReplay(c)
DisconnectSteps(c) ==
    \/ CallDisconnect(c) \/ DisconnectTaskDone(c) \/ DisconnectClose(c)
    \/ DisconnectClosed(c)
\* the receive loop without inbound messages and without subscriptions
LoopSteps(t) ==
    \/ LoopTop(t) \/ RecvClosed(t) \/ Sleep01Elapsed(t) \/ ReconnectClosed(t)
    \/ BackoffElapsed(t) \/ ReconnectRefused(t) \/ ReconnectEstablished(t)
    \/ ReconnectReplay(t) \/ TaskCancelled(t)
DispatchSteps(t) ==
    \/ RecvMsg(t) \/ HandlerReturned(t) \/ HandlerRaised(t) \/ WildcardReturned(t)
    \/ WildcardRaised(t)

\* connection life cycle: connect, disconnect and send from two callers,
\* connection losses, reconnects
LifecycleNext ==
    \/ \E c \in Callers : ConnectSteps(c) \/ DisconnectSteps(c) \/ CallSend(c) \/ SendDone(c)
    \/ \E t \in 1..MaxTasks : LoopSteps(t)
    \/ \E s \in 1..MaxSockets : ConnectionLost(s)

\* the receive loop on connections that stay up
QuietLoopSteps(t) ==
    \/ LoopTop(t) \/ Sleep01Elapsed(t) \/ TaskCancelled(t)

\* dispatch: one caller registers handlers, connects and disconnects; the
\* server sends messages that decode and messages that do not; no connection
\* is lost
DispatchNext ==
    \/ ConnectSteps(1) \/ DisconnectSteps(1)
    \/ \E key \in HandlerKeys : (\E h \in HandlerIds : CallOn(1, key, h)) \/ CallOff(1, key)
    \/ \E t \in 1..MaxTasks : QuietLoopSteps(t) \/ DispatchSteps(t)
    \/ \E s \in 1..MaxSockets : \E m \in Inbound : ServerSend(s, m)

\* reconnect attempts that are refused
RefusedReconnectSteps(t) ==
    \/ RecvClosed(t) \/ ReconnectClosed(t) \/ BackoffElapsed(t) \/ ReconnectRefused(t)

\* replay by connect(): two callers subscribe, connect, send and disconnect; no
\* connection is lost and the server accepts no reconnect
ReplayNext ==
    \/ \E c \in Callers :
         \/ ConnectSteps(c) \/ ConnectReplaySent(c) \/ DisconnectSteps(c)
         \/ CallSend(c) \/ SendDone(c)
         \/ \E ch \in Channels : CallSubscribe(c, ch)
    \/ \E t \in 1..MaxTasks : QuietLoopSteps(t) \/ RefusedReconnectSteps(t)

\* connect() called while the client has made no receive task
FirstConnect(c) == task = <<>> /\ CallConnect(c)
\* a connection is lost while the server can still accept a new one
RecoverableLoss(s) == Len(sock) < MaxSockets /\ ConnectionLost(s)

\* reconnection: one caller connects once and may disconnect, the server sends
\* messages that do not decode, connections are lost, the receive loop reconnects
ReconnectNext ==
    \/ FirstConnect(1) \/ ConnectRefused(1) \/ ConnectEstablished(1) \/ ConnectReplay(1)
    \/ DisconnectSteps(1)
    \/ \E t \in 1..MaxTasks : LoopSteps(t) \/ RecvMsg(t)
    \/ \E s \in 1..MaxSockets : RecoverableLoss(s) \/ ServerSend(s, "bad")

\* the event loop runs every coroutine that is ready, every sleep and every
\* close ends, and a connect attempt that is made again and again succeeds
ReconnectFairness ==
    /\ \A t \in 1..MaxTasks :
          WF_vars(LoopSteps(t) \/ RecvMsg(t)) /\ SF_vars(ReconnectEstablished(t))
    /\ WF_vars(ConnectReplay(1) \/ DisconnectTaskDone(1) \/ DisconnectClose(1)
                   \/ DisconnectClosed(1))

\* the receive loop on connections that are lost and made again by _reconnect,
\* with its replay
ReplayingLoopSteps(t) ==
    \/ LoopTop(t) \/ RecvClosed(t) \/ ReconnectClosed(t) \/ BackoffElapsed(t)
    \/ ReconnectEstablished(t) \/ ReconnectReplay(t) \/ ReconnectReplaySent(t)

\* subscriptions: caller 1 connects once, both callers subscribe and
\* unsubscribe, connections are lost, the receive loop reconnects and replays
SubscribeNext ==
    \/ FirstConnect(1) \/ ConnectRefused(1) \/ ConnectEstablished(1) \/ ConnectReplay(1)
    \/ ConnectReplaySent(1)
    \/ \E c \in Callers :
         \/ SendDone(c)
         \/ \E ch \in Channels : CallSubscribe(c, ch) \/ CallUnsubscribe(c, ch)
    \/ \E t \in 1..MaxTasks : ReplayingLoopSteps(t)
    \/ \E s \in 1..MaxSockets : RecoverableLoss(s)

CodecIdle ==
    /\ cmsg = Message(StrData, <<>>, <<>>)
    /\ cwire = <<>>
    /\ cin = <<>>
    /\ cout = NoResult
    /\ cpc = "start"

Init == ClientInit /\ CodecIdle
Spec == Init /\ [][LifecycleNext]_vars
DispatchSpec == Init /\ [][DispatchNext]_vars
ReplaySpec == Init /\ [][ReplayNext]_vars
ReconnectSpec == Init /\ [][ReconnectNext]_vars /\ ReconnectFairness
SubscribeSpec == Init /\ [][SubscribeNext]_vars
\* dispatch when the server also sends a message whose type is the string "*"
WildcardNext ==
    \/ DispatchNext
    \/ \E s \in 1..MaxSockets : ServerSend(s, Wildcard)
WildcardSpec == Init /\ [][WildcardNext]_vars
\* what persists: one caller subscribes to one channel, registers one handler,
\* connects and disconnects; connections are lost and the receive loop reconnects
PersistNext ==
    \/ ConnectSteps(1) \/ ConnectReplaySent(1) \/ DisconnectSteps(1) \/ SendDone(1)
    \/ CallSubscribe(1, "A") \/ CallUnsubscribe(1, "A")
    \/ CallOn(1, "X", 1) \/ CallOff(1, "X")
    \/ \E t \in 1..MaxTasks : LoopSteps(t) \/ ReconnectReplaySent(t)
    \/ \E s \in 1..MaxSockets : ConnectionLost(s)
PersistSpec == Init /\ [][PersistNext]_vars
\* reconnecting under any configuration: the delays in either order
\* (__init__ stores reconnect_delay and max_reconnect_delay as they are given)
AnyConfigs == Configs \cup {[auto |-> TRUE, d0 |-> 3, dmax |-> 2]}
BackoffInit == ClientStart(AnyConfigs) /\ CodecIdle
BackoffSpec == BackoffInit /\ [][ReconnectNext]_vars

ClientIdle ==
    /\ cfg = [auto |-> TRUE, d0 |-> 1, dmax |-> 3]
    /\ ws = 0
    /\ running = FALSE
    /\ handlers = [k \in HandlerKeys |-> 0]
    /\ subscriptions = {}
    /\ curDelay = 1
    /\ receiveTask = 0
    /\ sock = <<>>
    /\ task = <<>>
    /\ caller = [c \in Callers |-> NoCaller]
    /\ cur = Idle
    /\ ncalls = 0
    /\ nsubs = 0
    /\ nregs = 0
    /\ nmsgs = 0
    /\ terminal = FALSE
    /\ fails = 0
    /\ pending = {}

CodecStart == CodecInit /\ ClientIdle
CodecNext ==
    \/ CodecEncode /\ UNCHANGED clientVars
    \/ CodecDecodeWhole /\ UNCHANGED clientVars
    \/ CodecDecodePrefix /\ UNCHANGED clientVars
    \/ CodecDecodeCorrupt /\ UNCHANGED clientVars
    \/ CodecDecodeKind /\ UNCHANGED clientVars
    \/ CodecDecodeCut /\ UNCHANGED clientVars
    \/ CodecDecodePayloadCut /\ UNCHANGED clientVars
    \/ CodecEncodeExtra /\ UNCHANGED clientVars
    \/ CodecDecodeFields /\ UNCHANGED clientVars
CodecSpec == CodecStart /\ [][CodecNext]_vars

\* lengths at the two sides of what ">H" and ">I" hold
CLens16 == {Wide(0), Wide(U16_MAX), Wide(U16_MAX + 1)}
CLens32 == {Wide(0), <<U16_MAX, U16_MAX>>, <<U16_MAX + 1, 0>>}
\* numbers of further fields, at the two sides of 65535 fields in all
CMore == {0, U16_MAX - MaxFields, U16_MAX - 1}
CShapes ==
    {[channel |-> c, type |-> t, fields |-> f, more |-> n] :
        c \in CLens16, t \in CLens16, n \in CMore,
        f \in UNION {[1..k -> {FieldSize(key, v) : key \in CLens16, v \in CLens32}] :
                        k \in 0..MaxFields}}

SizedInit ==
    /\ cmsg \in CShapes
    /\ cwire = <<>>
    /\ cin = <<>>
    /\ cout = NoResult
    /\ cpc = "shape"
SizedStart == SizedInit /\ ClientIdle

\* protocol.encode(m) for a message of those sizes
CodecEncodeSized ==
    /\ cpc = "shape"
    /\ cout' = EncodeLengths(cmsg)
    /\ cpc' = "sized"
    /\ UNCHANGED <<cmsg, cwire, cin, clientVars>>

OverflowNext == CodecEncodeSized
OverflowSpec == SizedStart /\ [][OverflowNext]_vars

(***************************************************************************)
(* Properties of the connection life cycle (Spec)                          *)
(***************************************************************************)
\* C4: once disconnect() has returned and until connect() is called again, no
\* receive-loop task begins a connection attempt (none enters the await of
\* websockets.connect in _reconnect)
C4_DisconnectTerminal ==
    [][terminal =>
         \A t \in Tasks :
            task'[t].pc = "rc_connecting" => task[t].pc = "rc_connecting"]_vars

\* the k-th term of d0, min(2*d0, dmax), min(4*d0, dmax), ...
Backoff(k) == Min((2 ^ k) * cfg.d0, cfg.dmax)

\* C5: a backoff wait that begins after k failed reconnect attempts since the
\* last successful connect lasts min(2^k * d0, dmax); it lasts d0 when k = 0
C5_BackoffSequence ==
    \A t \in Tasks : task[t].pc = "backoff" => task[t].wait = Backoff(task[t].waitFails)

\* C7: a send_* call made while the client is not connected raises the "not
\* connected" WebSocketError before it returns control, writes to no socket,
\* and leaves the connection state, the subscriptions and the handlers as
\* they were
C7_SendNotConnected ==
    [][\A c \in Callers :
         (CallSend(c) /\ ~Connected) =>
            /\ caller'[c].result = "not_connected"
            /\ caller'[c].pc = "idle"
            /\ UNCHANGED <<ws, running, handlers, subscriptions, curDelay, receiveTask,
                           sock, task>>]_vars
\* a send_* call has failed so while self._ws was a socket that is no longer open
C7_Witness ==
    /\ ws # 0
    /\ sock[ws].st = "lost"
    /\ \E c \in Callers : caller[c].result = "not_connected"
    /\ \A t \in Tasks : task[t].pc = "recv"

\* program points of _reconnect and of the sleep of line 301
ReconnectPoints ==
    {"rc_close", "backoff", "rc_connecting", "rc_replay", "rc_replay_sent", "sleep01"}

\* C11: with auto-reconnect disabled no receive-loop task ever is in _reconnect;
\* a task whose recv reports the loss ends, and connected is false when the
\* lost socket is the client's; afterwards a socket is made, and connected
\* becomes true, only by a connect() call
C11_NoAutoReconnect ==
    /\ [](~cfg.auto => \A t \in Tasks : task[t].pc \notin ReconnectPoints)
    /\ [][~cfg.auto =>
            /\ \A t \in Tasks :
                  RecvClosed(t) =>
                     /\ task'[t].pc = "done"
                     /\ task[t].sock = ws => ~Connected'
            /\ (Len(sock') > Len(sock) \/ (~Connected /\ Connected')) =>
                  \E c \in Callers : ConnectEstablished(c)]_vars
\* auto-reconnect is disabled, the client's socket was lost, every receive
\* loop has ended by itself and no connect() call is in progress
C11_Witness ==
    /\ ~cfg.auto
    /\ running
    /\ ws # 0
    /\ sock[ws].st = "lost"
    /\ Tasks # {}
    /\ \A t \in Tasks : task[t].pc = "done" /\ ~task[t].cancel
    /\ \A c \in Callers : caller[c].pc = "idle"

\* C14: with auto-reconnect enabled a failure of connect() is not raised to the
\* caller
C14_ConnectFailureAbsorbed ==
    [][\A c \in Callers :
         (cfg.auto /\ ConnectRefused(c)) => caller'[c].result # "connect_failed"]_vars

\* C15: a failure of the socket write of a send_* call is not raised to the
\* caller
C15_SendFaultAbsorbed ==
    [][\A c \in Callers : SendDone(c) => caller'[c].result # "send_failed"]_vars

\* C16: once disconnect() has returned (and until connect() is called) the
\* client holds no socket, no socket it made is open and every receive-loop
\* task has ended
C16_DisconnectedAfterDisconnect ==
    terminal =>
        /\ ws = 0
        /\ \A s \in Socks : sock[s].st # "open"
        /\ \A t \in Tasks : TaskDone(t)

\* C10: at most one receive-loop task of the client has not ended
C10_AtMostOneReceiveLoop ==
    Cardinality({t \in Tasks : task[t].pc # "done"}) <= 1

(***************************************************************************)
(* Properties of dispatch (DispatchSpec)                                   *)
(***************************************************************************)
\* C8: when a handler raises, the receive loop goes on to the wildcard handler
\* or to its next iteration, and a task in which a handler has raised still
\* invokes the handler registered for the type of the next message it reads
C8_DispatchIsolation ==
    [][\A t \in Tasks :
         /\ HandlerRaised(t) => task'[t].pc \in {"wild", "top"}
         /\ WildcardRaised(t) => task'[t].pc = "top"
         /\ (/\ RecvMsg(t)
             /\ task[t].faulted # {}
             /\ Head(sock[task[t].sock].inq) \in EventTypes
             /\ handlers[Head(sock[task[t].sock].inq)] # 0)
            => /\ task'[t].pc = "handler"
               /\ task'[t].msg = Head(sock[task[t].sock].inq)]_vars
\* the handler of "X" has raised in a task, and the task now awaits the handler
\* of "Y"
C8_Witness ==
    /\ handlers["X"] # 0
    /\ handlers["Y"] # 0
    /\ handlers[Wildcard] = 0
    /\ \E t \in Tasks :
         /\ task[t].pc = "handler"
         /\ task[t].msg = "Y"
         /\ task[t].faulted = {"X"}

\* C13: while disconnect() has not been called, a receive loop that reads a
\* message it cannot decode does not end
C13_DecodeFailureKeepsLoop ==
    [][\A t \in Tasks :
         (running /\ RecvMsg(t) /\ Head(sock[task[t].sock].inq) = "bad")
            => task'[t].pc # "done"]_vars

\* the message a task is about to read
NextMsg(t) == Head(sock[task[t].sock].inq)

\* C27: when a message is read whose type has a handler, that handler is
\* awaited first; when it returns or raises and a wildcard handler is
\* registered, the wildcard handler is awaited next, for the same message; the
\* wildcard handler is awaited right after the read only when the type has no
\* handler
C27_TypeThenWildcard ==
    [][\A t \in Tasks :
         /\ (RecvMsg(t) /\ NextMsg(t) \in EventTypes /\ handlers[NextMsg(t)] # 0)
               => /\ task'[t].pc = "handler"
                  /\ task'[t].msg = NextMsg(t)
         /\ (RecvMsg(t) /\ task'[t].pc = "wild") => handlers[NextMsg(t)] = 0
         /\ ((HandlerReturned(t) \/ HandlerRaised(t)) /\ handlers[Wildcard] # 0)
               => /\ task'[t].pc = "wild"
                  /\ task'[t].msg = task[t].msg
                  /\ task'[t].h = handlers[Wildcard]]_vars
\* the handler of "X" has raised for a message, and the wildcard handler is
\* awaited for that message
C27_Witness ==
    /\ handlers["X"] # 0
    /\ handlers[Wildcard] # 0
    /\ \E t \in Tasks :
         /\ task[t].pc = "wild"
         /\ task[t].msg = "X"
         /\ task[t].faulted = {"X"}

\* C28: on(key, h) makes h the handler of key and off(key) leaves key without a
\* handler (off of a key without a handler changes nothing), both leave the
\* other keys alone and do not fail; a message is given to the handler that is
\* registered for its type when it is read, and to no handler of its type when
\* there is none
C28_OneHandlerPerType ==
    [][/\ \A c \in Callers, key \in HandlerKeys :
            /\ \A h \in HandlerIds :
                  CallOn(c, key, h) =>
                     /\ handlers' = [handlers EXCEPT ![key] = h]
                     /\ caller'[c].result = "ok"
            /\ CallOff(c, key) =>
                  /\ handlers' = [handlers EXCEPT ![key] = 0]
                  /\ handlers[key] = 0 => handlers' = handlers
                  /\ caller'[c].result = "ok"
       /\ \A t \in Tasks :
            (RecvMsg(t) /\ NextMsg(t) \in EventTypes) =>
               IF handlers[NextMsg(t)] # 0
               THEN task'[t].pc = "handler" /\ task'[t].h = handlers[NextMsg(t)]
               ELSE task'[t].pc # "handler"]_vars
\* after two on() calls handler 2 alone is registered for "X", in the place of
\* handler 1, and it is awaited for a message of type "X"
C28_Witness ==
    /\ nregs = 2
    /\ handlers = [k \in HandlerKeys |-> IF k = "X" THEN 2 ELSE 0]
    /\ \E t \in Tasks : task[t].pc = "handler" /\ task[t].msg = "X" /\ task[t].h = 2

\* C9: no two handler invocations of the client are in progress at once
C9_OneHandlerAtATime ==
    Cardinality({t \in Tasks : task[t].pc \in {"handler", "wild"}}) <= 1

(***************************************************************************)
(* Properties of the replay (ReplaySpec)                                   *)
(***************************************************************************)
\* C6: on a socket made by connect() when the subscriptions were A and B, the
\* first two frames written are subscribe frames of two different channels
C6_ReplayFirst ==
    \A s \in Socks :
        (sock[s].by = "connect" /\ sock[s].snap = {"A", "B"}) =>
            \A i \in 1..Min(Len(sock[s].out), 2) :
                /\ sock[s].out[i].k = "subscribe"
                /\ \A j \in 1..(i - 1) : sock[s].out[j].ch # sock[s].out[i].ch

(***************************************************************************)
(* Properties of reconnection (ReconnectSpec)                              *)
(***************************************************************************)
\* the client has no open socket while auto-reconnect is enabled and
\* disconnect() has not been called
AwaitingReconnect == cfg.auto /\ running /\ ~Connected

\* C12: with auto-reconnect enabled and while disconnect() has not been called,
\* a loop that finds the client not connected enters _reconnect however many
\* attempts have failed, the backoff wait is followed by a connect attempt, a
\* refused attempt brings the loop back to its top, and after a loss the client
\* is eventually connected again (or disconnect() is called)
C12_RetryUntilConnected ==
    /\ [][\A t \in Tasks :
            /\ (cfg.auto /\ running /\ ~Connected /\ LoopTop(t))
                  => task'[t].pc \in {"rc_close", "backoff"}
            /\ ReconnectClosed(t) => task'[t].pc = "backoff"
            /\ BackoffElapsed(t) => task'[t].pc = "rc_connecting"
            /\ ReconnectRefused(t) => task'[t].pc = "top"]_vars
    /\ (AwaitingReconnect ~> (Connected \/ ~running))
\* the first socket is gone, an attempt of the receive loop has succeeded and
\* the loop receives on the new socket
C12_Witness ==
    /\ cfg.auto
    /\ running
    /\ Connected
    /\ Len(sock) = 2
    /\ sock[1].st # "open"
    /\ sock[2].by = "reconnect"
    /\ \E t \in Tasks : task[t].pc = "recv" /\ task[t].sock = ws

(***************************************************************************)
(* Properties of the length prefixes (OverflowSpec)                        *)
(***************************************************************************)
\* the number a 2-byte or 4-byte prefix holds
UnpackWide(b) ==
    IF Len(b) = 2 THEN <<0, UnpackH(b)>>
    ELSE <<UnpackH(SubSeq(b, 1, 2)), UnpackH(SubSeq(b, 3, 4))>>
\* a channel, type or key longer than 65535 bytes, more than 65535 fields, a
\* value or a payload longer than 2^32 - 1 bytes
Overlong(shape) ==
    \/ shape.channel[1] > 0
    \/ shape.type[1] > 0
    \/ Len(shape.fields) + shape.more > U16_MAX
    \/ \E i \in 1..Len(shape.fields) :
          shape.fields[i].key[1] > 0 \/ shape.fields[i].value[1] > U16_MAX
    \/ PayloadLen(shape)[1] > U16_MAX

\* C24: encode fails exactly when a channel, type or key is longer than 65535
\* bytes, there are more than 65535 fields, or a value or the payload is longer
\* than 2^32 - 1 bytes; when it returns, every length prefix it wrote is the
\* length of the bytes that follow it
C24_OverflowRejected ==
    cpc = "sized" =>
        /\ cout.raised <=> Overlong(cmsg)
        /\ ~cout.raised =>
              \A i \in 1..Len(cout.value) : UnpackWide(cout.value[i][1]) = cout.value[i][2]
\* two values of 2^32 - 1 bytes each fit their prefixes, the payload does not,
\* and encode has raised
C24_Witness ==
    /\ cpc = "sized"
    /\ cmsg.channel = Wide(U16_MAX)
    /\ cmsg.type = Wide(0)
    /\ Len(cmsg.fields) = 2
    /\ \A i \in 1..2 : cmsg.fields[i] = FieldSize(Wide(0), <<U16_MAX, U16_MAX>>)
    /\ cmsg.more = 0
    /\ cout = Raise("struct.error")

\* C34: for one inbound message no handler is awaited twice under the same
\* key: the handler of the message's type is awaited only when a message was
\* just received, the wildcard handler only then or when the handler of the
\* type is over, and in that case it is not the same handler under the same
\* key "*", whatever the message's type
C34_AtMostOncePerMessage ==
    [][\A t \in Tasks :
          /\ (task[t].pc # "handler" /\ task'[t].pc = "handler") => task[t].pc = "recv"
          /\ (task[t].pc # "wild" /\ task'[t].pc = "wild") =>
                \/ task[t].pc = "recv"
                \/ /\ task[t].pc = "handler"
                   /\ ~(task[t].msg = Wildcard /\ task'[t].h = task[t].h)]_vars

\* C32: every open socket the client has made is the one self._ws refers to, so
\* at most one is open and a socket that was replaced is closed; once
\* disconnect() has returned, with no connect() in progress or made since, no
\* socket is open
C32_SingleSocket ==
    /\ \A s \in Socks : sock[s].st = "open" => s = ws
    /\ terminal => \A s \in Socks : sock[s].st # "open"

\* C35: the current reconnect delay, and the time every backoff wait lasts, is
\* at least the configured initial delay and at most the configured maximum
C35_BackoffBound ==
    /\ cfg.d0 <= curDelay /\ curDelay <= cfg.dmax
    /\ \A t \in Tasks :
          task[t].pc = "backoff" => cfg.d0 <= task[t].wait /\ task[t].wait <= cfg.dmax

(***************************************************************************)
(* Properties of the subscriptions (SubscribeSpec)                         *)
(***************************************************************************)
\* a Subscribe frame for ch was written to the client's socket
SubscribeWritten(ch) ==
    \E i \in 1..Len(sock[ws].out) : sock[ws].out[i] = Frame("subscribe", ch)
\* the client is connected, no API call is in progress and every receive loop
\* that has not ended waits in recv: no replay is in progress
ReplayDone ==
    /\ Connected
    /\ cur = Idle
    /\ \A c \in Callers : caller[c].pc = "idle"
    /\ \A t \in Tasks : task[t].pc \in {"recv", "done"}

\* C25: subscribe(ch) adds ch to the subscriptions; when the client is connected
\* it writes one Subscribe frame for ch to the socket; when it is not, it writes
\* nothing and returns without an error, and once a connection is established
\* and its replay is over a Subscribe frame for ch has been written
C25_Subscribe ==
    /\ [][\A c \in Callers, ch \in Channels :
            CallSubscribe(c, ch) =>
               /\ subscriptions' = subscriptions \cup {ch}
               /\ IF Connected
                  THEN sock' = [sock EXCEPT ![ws].out = Append(@, Frame("subscribe", ch))]
                  ELSE /\ sock' = sock
                       /\ caller'[c].pc = "idle"
                       /\ caller'[c].result = "ok"]_vars
    /\ [](ReplayDone => pending = {})

\* the Subscribe frames an action has appended to the client's socket
ReplayedNow ==
    IF ws' = ws /\ ws # 0 /\ Len(sock'[ws].out) > Len(sock[ws].out)
    THEN {sock'[ws].out[Len(sock'[ws].out)].ch}
    ELSE {}
\* C26: unsubscribe(ch) removes ch from the subscriptions; when ch is not among
\* them the set stays as it is and the call returns without an error; the replay
\* of a connect() begun afterwards takes its channels from the subscriptions as
\* they are then, and the replay of a reconnect writes a Subscribe frame only
\* for a channel that is among the subscriptions
C26_Unsubscribe ==
    /\ [][\A c \in Callers, ch \in Channels :
            CallUnsubscribe(c, ch) =>
               /\ subscriptions' = subscriptions \ {ch}
               /\ ch \notin subscriptions =>
                     /\ subscriptions' = subscriptions
                     /\ caller'[c].result \in {"none", "ok"}]_vars
    /\ [][\A c \in Callers :
            SendDone(c) /\ caller[c].op = "unsubscribe" /\ caller[c].absent =>
               caller'[c].result = "ok"]_vars
    /\ [][\A c \in Callers :
            /\ ConnectEstablished(c) => caller'[c].todo = subscriptions
            /\ ConnectReplay(c) => ReplayedNow \subseteq caller[c].todo]_vars
    /\ [][\A t \in 1..MaxTasks :
            ReconnectReplay(t) => ReplayedNow \subseteq subscriptions]_vars

\* the channels whose last frame written to the client's socket is a Subscribe
WireSubscribed ==
    {ch \in Channels :
        \E i \in 1..Len(sock[ws].out) :
           /\ sock[ws].out[i] = Frame("subscribe", ch)
           /\ \A j \in (i + 1)..Len(sock[ws].out) : sock[ws].out[j].ch # ch}
\* C31: once the client is connected and the replay and the calls are over, the
\* channels whose last frame on the client's socket is a Subscribe are the
\* subscriptions (no frame written to a socket that is still open has failed)
C31_WireAgrees == ReplayDone => WireSubscribed = subscriptions

\* C33: when a connect() made on a client that was never connected raises (the
\* socket was refused, or a replayed Subscribe frame could not be written), the
\* client is not connected, _running is false and no receive loop is alive
C33_ConnectAllOrNothing ==
    [][\A c \in Callers :
          (caller[c].op = "connect" /\ caller'[c].result = "connect_failed") =>
             /\ ~Connected'
             /\ running' = FALSE
             /\ \A t \in 1..Len(task') : task'[t].pc = "done"]_vars

\* the channels of the Subscribe frames written to socket s
SubscribedOn(s) == {sock[s].out[i].ch : i \in {j \in 1..Len(sock[s].out) : sock[s].out[j].k = "subscribe"}}
\* C36: the subscriptions change only in a step of subscribe() or unsubscribe()
\* and the handlers only in a step of on() or off(), so not in a step of
\* disconnect(), of a connection loss or of a reconnect; connect() replays a
\* copy of the subscriptions as they are when the socket is there, and when it
\* returns on that socket the frames written to it are one Subscribe frame for
\* each of these channels
C36_SubscriptionsAndHandlersPersist ==
    /\ [][subscriptions' # subscriptions =>
            \E c \in Callers, ch \in Channels : CallSubscribe(c, ch) \/ CallUnsubscribe(c, ch)]_vars
    /\ [][handlers' # handlers =>
            \E c \in Callers, key \in HandlerKeys :
               (\E h \in HandlerIds : CallOn(c, key, h)) \/ CallOff(c, key)]_vars
    /\ [][\A c \in Callers :
            /\ ConnectEstablished(c) =>
                  caller'[c].todo = subscriptions /\ sock'[ws'].snap = subscriptions
            /\ (ConnectReplay(c) /\ caller'[c].result = "ok" /\ Connected
                   /\ sock[ws].by = "connect") =>
                  /\ SubscribedOn(ws) = sock[ws].snap
                  /\ Len(sock[ws].out) = Cardinality(sock[ws].snap)]_vars
\* after connect(), subscribe("A") or an earlier one, on("X", h), disconnect()
\* and a second connect(), the second socket has received the Subscribe frame
\* for A and nothing else, and the handler is still registered
C36_Witness ==
    /\ Len(sock) = 2
    /\ sock[1].st = "closed"
    /\ ws = 2 /\ Connected
    /\ sock[2].by = "connect"
    /\ subscriptions = {"A"}
    /\ sock[2].out = <<Frame("subscribe", "A")>>
    /\ caller[1].pc = "idle" /\ caller[1].result = "ok"
    /\ handlers["X"] # 0

\* C30: once the client is connected and the replay and the calls are over,
\* a Subscribe frame was written to the client's socket for every channel of
\* the subscriptions
C30_ReplayComplete ==
    ReplayDone => \A ch \in subscriptions : SubscribeWritten(ch)

====
